---- MODULE Spec2Model ----
(***************************************************************************)
(* pipecom: request/acknowledgement transport over named pipes.            *)
(* The model follows the stream-pair (POSIX FIFO) backend,                 *)
(* src/src/pipecom_falaventho/_pipecom_posix.py: the framing codec         *)
(* (UTF-8 + base64 + newline), the sender handshake, the listener accept   *)
(* loop and its per-connection handler threads, over a model of the FIFO   *)
(* entries of the file system (inodes, blocking opens, pipe buffers).      *)
(***************************************************************************)
EXTENDS Integers, Sequences, FiniteSets, TLC

(***************************************************************************)
(* Part 1.  Framing codec.  Text is a sequence of Unicode code points,     *)
(* bytes and characters of a frame are sequences of numbers 0..255.        *)
(***************************************************************************)

\* Results of conversions that can raise.
Ok(v) == [ok |-> TRUE, val |-> v]
Fail == [ok |-> FALSE, val |-> <<>>]

NL == 10
PAD == 61

\* str.encode('utf-8') of one code point; lone surrogates cannot be encoded.
Utf8EncodeCp(c) ==
    IF c < 128 THEN Ok(<<c>>)
    ELSE IF c < 2048 THEN Ok(<<192 + (c \div 64), 128 + (c % 64)>>)
    ELSE IF c >= 55296 /\ c <= 57343 THEN Fail
    ELSE IF c < 65536
         THEN Ok(<<224 + (c \div 4096), 128 + ((c \div 64) % 64), 128 + (c % 64)>>)
    ELSE Ok(<<240 + (c \div 262144), 128 + ((c \div 4096) % 64),
              128 + ((c \div 64) % 64), 128 + (c % 64)>>)

RECURSIVE Utf8Encode(_)
Utf8Encode(s) ==
    IF s = <<>> THEN Ok(<<>>)
    ELSE LET h == Utf8EncodeCp(Head(s))
             t == Utf8Encode(Tail(s))
         IN  IF h.ok /\ t.ok THEN Ok(h.val \o t.val) ELSE Fail

IsCont(b) == b >= 128 /\ b <= 191

\* bytes.decode('utf-8'), strict: overlong forms, surrogates, stray
\* continuation bytes and truncated sequences raise.
RECURSIVE Utf8Decode(_)
Utf8Decode(b) ==
    IF b = <<>> THEN Ok(<<>>)
    ELSE LET b0 == b[1]
             n  == IF b0 < 128 THEN 1
                   ELSE IF b0 >= 194 /\ b0 <= 223 THEN 2
                   ELSE IF b0 >= 224 /\ b0 <= 239 THEN 3
                   ELSE IF b0 >= 240 /\ b0 <= 244 THEN 4
                   ELSE 0
         IN  IF n = 0 \/ Len(b) < n THEN Fail
             ELSE IF \E i \in 2..n : ~IsCont(b[i]) THEN Fail
             ELSE LET cp == IF n = 1 THEN b0
                            ELSE IF n = 2 THEN (b0 - 192) * 64 + (b[2] - 128)
                            ELSE IF n = 3 THEN (b0 - 224) * 4096 + (b[2] - 128) * 64
                                               + (b[3] - 128)
                            ELSE (b0 - 240) * 262144 + (b[2] - 128) * 4096
                                 + (b[3] - 128) * 64 + (b[4] - 128)
                      bad == \/ (n = 3 /\ cp < 2048)
                             \/ (n = 3 /\ cp >= 55296 /\ cp <= 57343)
                             \/ (n = 4 /\ (cp < 65536 \/ cp > 1114111))
                      rest == Utf8Decode(SubSeq(b, n + 1, Len(b)))
                  IN  IF bad \/ ~rest.ok THEN Fail ELSE Ok(<<cp>> \o rest.val)

\* The base64 alphabet: value 0..63 -> character code.
B64Char(v) ==
    IF v < 26 THEN 65 + v
    ELSE IF v < 52 THEN 97 + (v - 26)
    ELSE IF v < 62 THEN 48 + (v - 52)
    ELSE IF v = 62 THEN 43
    ELSE 47

\* Character code -> value 0..63, or -1 for a character outside the alphabet.
B64Val(c) ==
    IF c >= 65 /\ c <= 90 THEN c - 65
    ELSE IF c >= 97 /\ c <= 122 THEN c - 97 + 26
    ELSE IF c >= 48 /\ c <= 57 THEN c - 48 + 52
    ELSE IF c = 43 THEN 62
    ELSE IF c = 47 THEN 63
    ELSE -1

\* base64.b64encode: three bytes to four characters, '=' padding.
RECURSIVE B64Encode(_)
B64Encode(b) ==
    IF b = <<>> THEN <<>>
    ELSE IF Len(b) = 1
         THEN <<B64Char(b[1] \div 4), B64Char((b[1] % 4) * 16), PAD, PAD>>
    ELSE IF Len(b) = 2
         THEN <<B64Char(b[1] \div 4),
                B64Char((b[1] % 4) * 16 + (b[2] \div 16)),
                B64Char((b[2] % 16) * 4), PAD>>
    ELSE <<B64Char(b[1] \div 4),
           B64Char((b[1] % 4) * 16 + (b[2] \div 16)),
           B64Char((b[2] % 16) * 4 + (b[3] \div 64)),
           B64Char(b[3] % 64)>> \o B64Encode(SubSeq(b, 4, Len(b)))

\* binascii.a2b_base64 in its default (non-strict) mode, as base64.b64decode
\* calls it: characters outside the alphabet are skipped, a complete padding
\* ends the input, a dangling quad raises.  quad is the position in the
\* current group of four, left the bits carried over, pads the '=' seen.
RECURSIVE B64Dec(_, _, _, _, _)
B64Dec(c, quad, left, pads, out) ==
    IF c = <<>> THEN (IF quad = 0 THEN Ok(out) ELSE Fail)
    ELSE LET ch == Head(c)
             v  == B64Val(ch)
         IN  IF ch = PAD
             THEN IF quad >= 2 /\ quad + pads + 1 >= 4 THEN Ok(out)
                  ELSE B64Dec(Tail(c), quad, left, pads + 1, out)
             ELSE IF v < 0 THEN B64Dec(Tail(c), quad, left, pads, out)
             ELSE IF quad = 0 THEN B64Dec(Tail(c), 1, v, 0, out)
             ELSE IF quad = 1
                  THEN B64Dec(Tail(c), 2, v % 16, 0, Append(out, left * 4 + (v \div 16)))
             ELSE IF quad = 2
                  THEN B64Dec(Tail(c), 3, v % 4, 0, Append(out, left * 16 + (v \div 4)))
             ELSE B64Dec(Tail(c), 0, 0, 0, Append(out, left * 64 + v))

B64Decode(c) == B64Dec(c, 0, 0, 0, <<>>)

\* str.strip(): whitespace removed at both ends.
IsSpace(c) == c \in {9, 10, 11, 12, 13, 28, 29, 30, 31, 32, 133, 160}

RECURSIVE LStrip(_)
LStrip(s) == IF s # <<>> /\ IsSpace(Head(s)) THEN LStrip(Tail(s)) ELSE s

RECURSIVE RStrip(_)
RStrip(s) ==
    IF s # <<>> /\ IsSpace(s[Len(s)]) THEN RStrip(SubSeq(s, 1, Len(s) - 1)) ELSE s

Strip(s) == RStrip(LStrip(s))

\* A framing that writes the UTF-8 bytes as they are.
EncodeFrameRaw(m) ==
    LET u == Utf8Encode(m)
    IN  IF u.ok THEN Ok(u.val \o <<NL>>) ELSE Fail

\* The line send writes for a message: base64 of its UTF-8 bytes, then '\n'.
EncodeFrame(m) ==
    LET u == Utf8Encode(m)
    IN  IF u.ok THEN Ok(B64Encode(u.val) \o <<NL>>) ELSE Fail

\* file.readline(): the text up to and including the first '\n' (all of it
\* when there is none).
RECURSIVE ReadLine(_)
ReadLine(s) ==
    IF s = <<>> THEN <<>>
    ELSE IF Head(s) = NL THEN <<NL>>
    ELSE <<Head(s)>> \o ReadLine(Tail(s))

\* The listener's decoding of a stripped line.
DecodeMessage(line) ==
    LET b == B64Decode(line)
    IN  IF b.ok THEN Utf8Decode(b.val) ELSE Fail

\* "ACK" and the frame both sides use for it.
ACK == <<65, 67, 75>>
AckFrame == B64Encode(ACK) \o <<NL>>


(***************************************************************************)
(* Part 2.  Bounds and inputs of the protocol model.                       *)
(***************************************************************************)

\* External sender processes, each calling send once.
NSenders == 2
\* Connections one accept loop may accept in a run.
MaxConn == 3
\* Longest payload of the codec specification.
MaxLen == 3

\* Payload texts: "" (empty), "A", "B", and a custom die code "D".
Empty == <<>>
MsgA == <<65>>
MsgB == <<66>>
CustomDie == <<68>>

Payloads == {Empty, MsgA, MsgB, CustomDie}
DieCodes == {CustomDie}
MaxMessagesChoices == {0, 1, 2}
\* send's timeout argument: 0 (wait indefinitely) or a positive number of seconds.
Timeouts == {0, 5}

\* Listener 1 serves "echo"; listener 2, when it runs, serves the response
\* channel "out" of listener 1.
Listeners == {1, 2}
PipeName == "echo"
RespName == "out"
NoName == "<None>"
pipe_name(l) == IF l = 1 THEN PipeName ELSE RespName
AckName(n) == n \o "_ack"
Paths == {PipeName, AckName(PipeName), RespName, AckName(RespName)}

Senders == 1..NSenders
MaxHandlers == Cardinality(Listeners) * MaxConn
HandlerIds == 1..MaxHandlers
\* The send a connection handler makes to the response channel runs in the
\* handler's thread; it is unit NSenders + k for handler k.
Fwd(k) == NSenders + k
Units == 1..(NSenders + MaxHandlers)

VARIABLES
    fs,             \* directory: path -> inode number, 0 when the path is absent
    inodes,         \* inode table: FIFOs and regular files
    lpc,            \* per listener: position of the _handler thread ("off": not started)
    lgen,           \* per listener: token of the accept loop's pending open
    lfd,            \* per listener: inode of the FIFO the accept loop is opening
    keep_alive,     \* per listener: _handler's keep_alive flag
    message_count,  \* per listener: _handler's message_count
    max_messages,   \* per listener: configuration
    die_code,       \* per listener: configuration
    response_pipe_name, \* per listener: configuration (NoName for None)
    hs,             \* connection handler threads, in spawn order
    snd,            \* send calls: external senders and handler forwards
    stopAccepts,    \* history, per listener: connections accepted since a
                    \* handler cleared keep_alive on the die code
    cm, cframe, cout, cpc, \* codec specification: message, frame, decoded, position
    call,           \* call specification: one send or listen call, seen from its caller
    wd              \* the _kill_pipe thread of listener 1: position, sends begun

cvars == <<cm, cframe, cout, cpc, call, wd>>
vars == <<fs, inodes, lpc, lgen, lfd, keep_alive, message_count, max_messages,
          die_code, response_pipe_name, hs, snd, stopAccepts, cm, cframe, cout, cpc,
          call, wd>>

\* A call of send or listen as its caller sees it: the arguments, the
\* position in the call, `attempt` (the loop counter of the Windows send),
\* `tries` (handshake attempts begun), `now` (time since the call, in
\* ticks), the outcome, the channel resources the call has created, the
\* state of the thread listen started, whether the last attempt ended with
\* an error of the operating system, what the operating system answered to
\* the unlinks of _cleanup_fifos (`unlinks`, in the order of the calls),
\* what the thread raised about resources that remained (`report`), and for
\* a POSIX send the thread it is called from (`main`) with the signal state
\* of the process: the SIGALRM handler in place before the call
\* (`previous`), the one in place now (`sigalrm`) and whether an alarm is
\* pending (`alarm`).
NoReport ==
    [raised |-> FALSE, pipe_open |-> FALSE, ack_pipe_open |-> FALSE,
     exceptions |-> <<>>]
NewCall(backend, op, name, timeout, max_attempts) ==
    [backend |-> backend, op |-> op, name |-> name, timeout |-> timeout,
     max_attempts |-> max_attempts, pc |-> "call", attempt |-> 0, tries |-> 0,
     now |-> 0, outcome |-> "none", created |-> {}, thread |-> "none",
     oserror |-> FALSE, unlinks |-> <<>>, report |-> NoReport,
     main |-> FALSE, previous |-> "SIG_DFL", sigalrm |-> "SIG_DFL",
     alarm |-> FALSE]
NoCall == [NewCall("none", "none", <<>>, 0, 0) EXCEPT !.pc = "off"]

\* The _kill_pipe thread: "off" (listen was called with timeout 0, no thread),
\* "sleep" (first loop, until end_time), "check" (the test of the second
\* loop), "send" (inside send), "ended" (the loop was left), "dead" (send
\* raised and the exception ended the thread); `sends` counts the sends
\* begun, `timeout` is listen's idle timeout and `now` the time since listen
\* was called, in seconds, while the watchdog sleeps.
NewWatch(timeout) ==
    [pc |-> IF timeout > 0 THEN "sleep" ELSE "off", sends |-> 0,
     timeout |-> timeout, now |-> 0]
NoWatch == NewWatch(0)

(***************************************************************************)
(* Part 3.  The file system: FIFO inodes with blocking opens.              *)
(* An open of a FIFO registers the opener as reader (writer) at once and   *)
(* then waits until a writer (reader) has opened it; rcount and wcount     *)
(* count the opens, so a waiter proceeds when the count it saw has moved.  *)
(* The pipe buffer lives while any end is open.                            *)
(***************************************************************************)

NewInode(kind) ==
    [kind |-> kind, buf |-> <<>>, readers |-> 0, writers |-> 0,
     rcount |-> 0, wcount |-> 0]

NoWait == -1

\* A creation that replaces an entry that is already there by a new FIFO.
MkfifoFresh(dir, tab, path) ==
    <<[dir EXCEPT ![path] = Len(tab) + 1], Append(tab, NewInode("fifo"))>>

\* os.mkfifo(path): a new FIFO, or FileExistsError (passed over) when the
\* path exists.  Yields the pair <<fs, inodes>>.
Mkfifo(dir, tab, path) ==
    IF dir[path] # 0 THEN <<dir, tab>>
    ELSE <<[dir EXCEPT ![path] = Len(tab) + 1], Append(tab, NewInode("fifo"))>>

\* os.unlink(path); FileNotFoundError is passed over.
Unlink(dir, path) == [dir EXCEPT ![path] = 0]

\* Registering as reader of inode i, and the token to wait on.
RegRead(tab, i) == [tab EXCEPT ![i].readers = @ + 1, ![i].rcount = @ + 1]
ReadToken(tab, i) ==
    IF tab[i].kind = "fifo" /\ tab[i].writers = 0 THEN tab[i].wcount ELSE NoWait
ReadOpened(tab, i, gen) == gen = NoWait \/ tab[i].wcount # gen

RegWrite(tab, i) == [tab EXCEPT ![i].writers = @ + 1, ![i].wcount = @ + 1]
WriteToken(tab, i) ==
    IF tab[i].kind = "fifo" /\ tab[i].readers = 0 THEN tab[i].rcount ELSE NoWait
WriteOpened(tab, i, gen) == gen = NoWait \/ tab[i].rcount # gen

\* The buffer of a FIFO is dropped with its last open end.
Release(n) ==
    IF n.kind = "fifo" /\ n.readers = 0 /\ n.writers = 0
    THEN [n EXCEPT !.buf = <<>>] ELSE n

CloseRead(tab, i) == [tab EXCEPT ![i] = Release([@ EXCEPT !.readers = @ - 1])]
CloseWrite(tab, i) == [tab EXCEPT ![i] = Release([@ EXCEPT !.writers = @ - 1])]

\* A read does not block: data is there, or every writer has closed (EOF),
\* or the inode is a regular file.
Readable(n) == n.kind = "file" \/ n.buf # <<>> \/ n.writers = 0

\* A read that leaves what it read in the pipe.
TakeNone(tab, i) == tab

\* One read of the text layer takes everything available in the pipe into
\* the reader's own buffer; a regular file is read from its start and keeps
\* its content.
TakeAll(tab, i) ==
    IF tab[i].kind = "fifo" THEN [tab EXCEPT ![i].buf = <<>>] ELSE tab


(***************************************************************************)
(* Part 4.  send (one call = one unit).                                    *)
(***************************************************************************)

\* Where the listener of a name stands when a send to the name is called:
\* not started ("none"), up to and in the accept loop ("up"), out of the
\* loop and in the finally clause ("stopping"), or ended ("closed").
Phase(l) ==
    CASE lpc[l] \in {"start", "mk2", "loop", "accept"} -> "up"
      [] lpc[l] \in {"cleanup", "cleanup2"} -> "stopping"
      [] lpc[l] = "closed" -> "closed"
      [] OTHER -> "none"
PhaseOf(name) == Phase(CHOOSE l \in Listeners : pipe_name(l) = name)

\* A send call before its first step; `at` records PhaseOf(pipe) at the call.
Idle(pipe, message, timeout, main) ==
    [pc |-> "idle", pipe |-> pipe, message |-> message, timeout |-> timeout,
     main |-> main, fd |-> 0, gen |-> NoWait, res |-> <<>>, outcome |-> "none",
     at |-> "none"]
Off == [Idle(NoName, <<>>, 0, FALSE) EXCEPT !.pc = "off"]

\* open(path, 'w', 1): O_WRONLY | O_CREAT | O_TRUNC.  A missing path becomes
\* a regular file, an existing regular file is truncated, a FIFO gets one
\* more writer.  Yields <<fs, inodes, fd, token>>.
OpenForWrite(dir, tab, path) ==
    IF dir[path] = 0
    THEN <<[dir EXCEPT ![path] = Len(tab) + 1], Append(tab, NewInode("file")),
           Len(tab) + 1, NoWait>>
    ELSE LET i == dir[path]
         IN  IF tab[i].kind = "file"
             THEN <<dir, [tab EXCEPT ![i].buf = <<>>], i, NoWait>>
             ELSE <<dir, RegWrite(tab, i), i, WriteToken(tab, i)>>

\* A write at offset 0 of a regular file replaces the bytes it covers.
OverWrite(old, line) ==
    IF Len(old) > Len(line) THEN line \o SubSeq(old, Len(line) + 1, Len(old))
    ELSE line

\* file.write(line) with line buffering, then file.close(), on an open write
\* end.  ok is FALSE when the FIFO has no reader (BrokenPipeError).
WriteLineAndClose(tab, i, line) ==
    IF tab[i].kind = "file"
    THEN [ok |-> TRUE, tab |-> [tab EXCEPT ![i].buf = OverWrite(@, line)]]
    ELSE IF tab[i].readers = 0
    THEN [ok |-> FALSE, tab |-> CloseWrite(tab, i)]
    ELSE [ok |-> TRUE, tab |-> CloseWrite([tab EXCEPT ![i].buf = @ \o line], i)]

\* Closing an end that was opened (or is being opened) on inode i.
DropRead(tab, i) == IF tab[i].kind = "fifo" THEN CloseRead(tab, i) ELSE tab
DropWrite(tab, i) == IF tab[i].kind = "fifo" THEN CloseWrite(tab, i) ELSE tab

\* A comparison that takes any decodable reply for the ACK.
IsAckAny(res) == res.ok

\* The comparison of the decoded reply with the ACK constant.
IsAck(res) == res.ok /\ res.val = ACK

\* _make_fifos, first mkfifo: the request FIFO.
SendMkfifo(u) ==
    /\ u \in Senders
    /\ snd[u].pc = "idle"
    /\ LET r == Mkfifo(fs, inodes, snd[u].pipe)
       IN  /\ fs' = r[1]
           /\ inodes' = r[2]
    /\ snd' = [snd EXCEPT ![u].pc = "mk2", ![u].at = PhaseOf(snd[u].pipe)]
    /\ UNCHANGED <<cvars, lpc, lgen, lfd, keep_alive, message_count, max_messages,
                   die_code, response_pipe_name, hs, stopAccepts>>

\* _make_fifos, second mkfifo: the acknowledgement FIFO; then the alarm is
\* armed (main thread) or use_signal is cleared (any other thread).
SendMkfifoAck(u) ==
    /\ snd[u].pc = "mk2"
    /\ LET r == Mkfifo(fs, inodes, AckName(snd[u].pipe))
       IN  /\ fs' = r[1]
           /\ inodes' = r[2]
    /\ snd' = [snd EXCEPT ![u].pc = "open_out"]
    /\ UNCHANGED <<cvars, lpc, lgen, lfd, keep_alive, message_count, max_messages,
                   die_code, response_pipe_name, hs, stopAccepts>>

\* fifo_out = open(pipe_name, 'w', 1): registers as writer; the call returns
\* once a reader has the FIFO open.
SendOpenOut(u) ==
    /\ snd[u].pc = "open_out"
    /\ LET r == OpenForWrite(fs, inodes, snd[u].pipe)
       IN  /\ fs' = r[1]
           /\ inodes' = r[2]
           /\ snd' = [snd EXCEPT ![u].pc = "write", ![u].fd = r[3], ![u].gen = r[4]]
    /\ UNCHANGED <<cvars, lpc, lgen, lfd, keep_alive, message_count, max_messages,
                   die_code, response_pipe_name, hs, stopAccepts>>

\* fifo_in = open(ack_pipe_name, 'r') after a successful write:
\* FileNotFoundError when the entry is gone, else the call registers as
\* reader and waits for a writer.  Yields the unit's record.
OpenAckForRead(dir, tab, s) ==
    LET i == dir[AckName(s.pipe)]
    IN  IF i = 0 THEN [s EXCEPT !.pc = "done", !.fd = 0, !.outcome = "UNKNOWN"]
        ELSE [s EXCEPT !.pc = "read", !.fd = i, !.gen = ReadToken(tab, i)]

\* The open of the request FIFO has returned: write the encoded message and
\* '\n', close, and start the open of the acknowledgement FIFO.  (Between
\* the close and that open the call shares nothing with the other units.)
SendWrite(u) ==
    /\ snd[u].pc = "write"
    /\ WriteOpened(inodes, snd[u].fd, snd[u].gen)
    /\ LET f == EncodeFrame(snd[u].message)
           w == WriteLineAndClose(inodes, snd[u].fd, f.val)
           s == OpenAckForRead(fs, w.tab, snd[u])
       IN  IF ~f.ok
           THEN /\ inodes' = DropWrite(inodes, snd[u].fd)
                /\ snd' = [snd EXCEPT ![u].pc = "done", ![u].fd = 0,
                                      ![u].outcome = "UNKNOWN"]
           ELSE IF ~w.ok
           THEN /\ inodes' = w.tab
                /\ \E o \in {"UNKNOWN", "BrokenPipeError"} :
                      snd' = [snd EXCEPT ![u].pc = "done", ![u].fd = 0,
                                         ![u].outcome = o]
           ELSE /\ inodes' = IF s.pc = "read" /\ w.tab[s.fd].kind = "fifo"
                             THEN RegRead(w.tab, s.fd) ELSE w.tab
                /\ snd' = [snd EXCEPT ![u] = s]
    /\ UNCHANGED <<cvars, fs, lpc, lgen, lfd, keep_alive, message_count, max_messages,
                   die_code, response_pipe_name, hs, stopAccepts>>

\* res = fifo_in.readline().strip(); base64-decode; compare with ACK; close.
SendRead(u) ==
    /\ snd[u].pc = "read"
    /\ ReadOpened(inodes, snd[u].fd, snd[u].gen)
    /\ Readable(inodes[snd[u].fd])
    /\ LET res == B64Decode(Strip(ReadLine(inodes[snd[u].fd].buf)))
       IN  snd' = [snd EXCEPT ![u].pc = "done", ![u].fd = 0, ![u].res = res.val,
                      ![u].outcome = IF IsAck(res) THEN "true" ELSE "UNKNOWN"]
    /\ inodes' = DropRead(TakeAll(inodes, snd[u].fd), snd[u].fd)
    /\ UNCHANGED <<cvars, fs, lpc, lgen, lfd, keep_alive, message_count, max_messages,
                   die_code, response_pipe_name, hs, stopAccepts>>

\* Not the main thread: select([fifo_in], [], [], timeout) found nothing to
\* read within timeout (at once when timeout is 0).
SendSelectTimeout(u) ==
    /\ snd[u].pc = "read"
    /\ ~snd[u].main
    /\ ReadOpened(inodes, snd[u].fd, snd[u].gen)
    /\ ~Readable(inodes[snd[u].fd])
    /\ snd' = [snd EXCEPT ![u].pc = "done", ![u].fd = 0, ![u].outcome = "TIMEOUT"]
    /\ inodes' = DropRead(inodes, snd[u].fd)
    /\ UNCHANGED <<cvars, fs, lpc, lgen, lfd, keep_alive, message_count, max_messages,
                   die_code, response_pipe_name, hs, stopAccepts>>

\* Main thread: SIGALRM arrives while the call is inside the try block;
\* alarm_handler raises, the finally clause closes what is open.
SendAlarm(u) ==
    /\ snd[u].main
    /\ snd[u].timeout > 0
    /\ snd[u].pc \in {"open_out", "write", "read"}
    /\ inodes' = IF snd[u].pc = "write" THEN DropWrite(inodes, snd[u].fd)
                 ELSE IF snd[u].pc = "read" THEN DropRead(inodes, snd[u].fd)
                 ELSE inodes
    /\ snd' = [snd EXCEPT ![u].pc = "done", ![u].fd = 0, ![u].outcome = "TIMEOUT"]
    /\ UNCHANGED <<cvars, fs, lpc, lgen, lfd, keep_alive, message_count, max_messages,
                   die_code, response_pipe_name, hs, stopAccepts>>


(***************************************************************************)
(* Part 5.  The listener: _handler's accept loop and handle_connection.    *)
(***************************************************************************)

\* A freshly spawned handle_connection thread of listener l owning fifo_in.
NewHandler(l, fin) ==
    [lis |-> l, pc |-> "read", fin |-> fin, fout |-> 0, gen |-> NoWait,
     line |-> <<>>, decoded |-> <<>>, die |-> FALSE, called |-> FALSE,
     acked |-> FALSE, result |-> <<>>]

\* The connections listener l has accepted.
Conns(l) == {k \in 1..Len(hs) : hs[k].lis = l}

\* The callback of the model: the text "R" followed by the message.
CallbackResult(m) == <<82>> \o m

\* message_count += 1 of the accept loop; the count is kept only when
\* max_messages > 0.
CountAccepted(count, max) == IF max > 0 THEN count + 1 ELSE count

\* A cap test that lets one connection too many through.
CapReachedLate(count, max) == max > 0 /\ count > max

\* The cap test of the accept loop: `if message_count >= max_messages`.
CapReached(count, max) == max > 0 /\ count >= max

\* What handle_connection does with the stripped line it read:
\* "return" (empty line), "raise" (undecodable), "die" or "callback".
Dispatch(message, die) ==
    IF message = <<>> THEN "return"
    ELSE LET d == DecodeMessage(message)
         IN  IF ~d.ok THEN "raise"
             ELSE IF d.val = die THEN "die"
             ELSE "callback"

\* _make_fifos at the start of the _handler thread, first mkfifo.
ListenMkfifo(l) ==
    /\ lpc[l] = "start"
    /\ LET r == Mkfifo(fs, inodes, pipe_name(l))
       IN  /\ fs' = r[1]
           /\ inodes' = r[2]
    /\ lpc' = [lpc EXCEPT ![l] = "mk2"]
    /\ UNCHANGED <<cvars, lgen, lfd, keep_alive, message_count, max_messages,
                   die_code, response_pipe_name, hs, snd, stopAccepts>>

\* _make_fifos, second mkfifo.
ListenMkfifoAck(l) ==
    /\ lpc[l] = "mk2"
    /\ LET r == Mkfifo(fs, inodes, AckName(pipe_name(l)))
       IN  /\ fs' = r[1]
           /\ inodes' = r[2]
    /\ lpc' = [lpc EXCEPT ![l] = "loop"]
    /\ UNCHANGED <<cvars, lgen, lfd, keep_alive, message_count, max_messages,
                   die_code, response_pipe_name, hs, snd, stopAccepts>>

\* A loop that never tests its flag.
WhileTrue(l) == TRUE

\* The loop condition `while keep_alive:`.
WhileKeepAlive(l) == keep_alive[l]

\* `while keep_alive:` and the start of `open(pipe_name, 'r')`: the loop
\* leaves for the finally clause (flag cleared, or the open raised), or
\* registers as reader of the FIFO.
ListenLoop(l) ==
    /\ lpc[l] = "loop"
    /\ IF ~WhileKeepAlive(l) \/ fs[pipe_name(l)] = 0
       THEN /\ lpc' = [lpc EXCEPT ![l] = "cleanup"]
            /\ UNCHANGED <<inodes, lgen, lfd>>
       ELSE LET i == fs[pipe_name(l)]
            IN  /\ inodes' = IF inodes[i].kind = "fifo" THEN RegRead(inodes, i)
                             ELSE inodes
                /\ lgen' = [lgen EXCEPT ![l] = ReadToken(inodes, i)]
                /\ lfd' = [lfd EXCEPT ![l] = i]
                /\ lpc' = [lpc EXCEPT ![l] = "accept"]
    /\ UNCHANGED <<cvars, fs, keep_alive, message_count, max_messages, die_code,
                   response_pipe_name, hs, snd, stopAccepts>>

\* A loop that waits for its connection threads before it takes the next
\* connection.
OpenReturnsAfterJoin(l) ==
    /\ ReadOpened(inodes, lfd[l], lgen[l])
    /\ \A k \in Conns(l) : hs[k].pc \in {"done", "error"}

\* `fifo_in = open(pipe_name, 'r')` of the accept loop returns: a writer has
\* opened the FIFO.  The loop never joins the threads it started.
OpenReturns(l) == ReadOpened(inodes, lfd[l], lgen[l])

\* The open returned (a writer has opened the FIFO): spawn the connection
\* thread, count the connection, test the cap.
ListenAccept(l) ==
    /\ lpc[l] = "accept"
    /\ OpenReturns(l)
    /\ Cardinality(Conns(l)) < MaxConn
    /\ hs' = Append(hs, NewHandler(l, lfd[l]))
    /\ message_count' = [message_count EXCEPT
                            ![l] = CountAccepted(@, max_messages[l])]
    /\ keep_alive' = [keep_alive EXCEPT
                         ![l] = @ /\ ~CapReached(message_count'[l], max_messages[l])]
    /\ stopAccepts' = [stopAccepts EXCEPT
                          ![l] = IF \E k \in Conns(l) : hs[k].die THEN @ + 1 ELSE @]
    /\ lpc' = [lpc EXCEPT ![l] = "loop"]
    /\ UNCHANGED <<cvars, fs, inodes, lgen, lfd, max_messages, die_code,
                   response_pipe_name, snd>>

\* finally: _cleanup_fifos, unlink of the request FIFO.
ListenCleanup(l) ==
    /\ lpc[l] = "cleanup"
    /\ fs' = Unlink(fs, pipe_name(l))
    /\ lpc' = [lpc EXCEPT ![l] = "cleanup2"]
    /\ UNCHANGED <<cvars, inodes, lgen, lfd, keep_alive, message_count,
                   max_messages, die_code, response_pipe_name, hs, snd, stopAccepts>>

\* _cleanup_fifos, unlink of the acknowledgement FIFO; the thread ends.
ListenCleanupAck(l) ==
    /\ lpc[l] = "cleanup2"
    /\ fs' = Unlink(fs, AckName(pipe_name(l)))
    /\ lpc' = [lpc EXCEPT ![l] = "closed"]
    /\ UNCHANGED <<cvars, inodes, lgen, lfd, keep_alive, message_count,
                   max_messages, die_code, response_pipe_name, hs, snd, stopAccepts>>

\* message = fifo_in.readline().strip(); fifo_in.close(); then the empty
\* test, the decoding and the die-code test; on the die code keep_alive is
\* cleared and the open of the acknowledgement FIFO starts.
HandlerRead(k) ==
    /\ k \in 1..Len(hs)
    /\ hs[k].pc = "read"
    /\ Readable(inodes[hs[k].fin])
    /\ LET l == hs[k].lis
           line == ReadLine(inodes[hs[k].fin].buf)
           message == Strip(line)
           what == Dispatch(message, die_code[l])
           tab == DropRead(TakeAll(inodes, hs[k].fin), hs[k].fin)
           r == OpenForWrite(fs, tab, AckName(pipe_name(l)))
           h == [hs[k] EXCEPT !.line = line, !.fin = 0,
                    !.decoded = IF what \in {"die", "callback"}
                                THEN DecodeMessage(message).val ELSE <<>>,
                    !.die = (what = "die")]
       IN  IF what = "die"
           THEN /\ keep_alive' = [keep_alive EXCEPT ![l] = FALSE]
                /\ fs' = r[1]
                /\ inodes' = r[2]
                /\ hs' = [hs EXCEPT ![k] = [h EXCEPT !.pc = "ack_write",
                                               !.fout = r[3], !.gen = r[4]]]
           ELSE /\ inodes' = tab
                /\ hs' = [hs EXCEPT ![k] =
                             [h EXCEPT !.pc = CASE what = "return" -> "done"
                                               [] what = "raise" -> "error"
                                               [] OTHER -> "callback"]]
                /\ UNCHANGED <<fs, keep_alive>>
    /\ UNCHANGED <<cvars, lpc, lgen, lfd, message_count, max_messages, die_code,
                   response_pipe_name, snd, stopAccepts>>

\* A handle_connection that forwards the result before it acknowledges.
AfterCallbackForwardFirst(h, resp) ==
    IF resp # NoName THEN "forward" ELSE "ack_write"

\* Where handle_connection goes when the callback has returned: to the
\* acknowledgement, whatever the response channel.
AfterCallback(h, resp) == "ack_write"

\* A connection thread whose failure stops the accept loop.
FlagCleared(flag) == FALSE

\* A connection thread whose failure puts the accept loop back to accepting.
FlagSetAgain(flag) == TRUE

\* keep_alive after the callback raised: `except Exception: raise PipeError`
\* ends the connection thread and leaves the flag of the accept loop alone.
FlagAfterRaise(flag) == flag

\* result = callback(decoded_message): the callback raises, or returns and
\* fifo_out = open(ack_pipe_name, 'w', 1) starts.
HandlerCallback(k) ==
    /\ k \in 1..Len(hs)
    /\ hs[k].pc = "callback"
    /\ \/ LET r == OpenForWrite(fs, inodes, AckName(pipe_name(hs[k].lis)))
          IN  /\ fs' = r[1]
              /\ inodes' = r[2]
              /\ hs' = [hs EXCEPT ![k].called = TRUE,
                                   ![k].pc = AfterCallback(hs[k],
                                                 response_pipe_name[hs[k].lis]),
                                   ![k].result = CallbackResult(hs[k].decoded),
                                   ![k].fout = r[3], ![k].gen = r[4]]
       \/ /\ hs' = [hs EXCEPT ![k].called = TRUE, ![k].pc = "error"]
          /\ UNCHANGED <<fs, inodes>>
    /\ keep_alive' = [keep_alive EXCEPT
                         ![hs[k].lis] = IF hs'[k].pc = "error"
                                        THEN FlagAfterRaise(@) ELSE @]
    /\ UNCHANGED <<cvars, lpc, lgen, lfd, message_count, max_messages,
                   die_code, response_pipe_name, snd, stopAccepts>>

\* A handle_connection that never forwards.
AfterAckNoForward(h, resp) == "done"

\* A handle_connection that forwards after every ACK.
AfterAckForwardAll(h, resp) == IF resp # NoName THEN "forward" ELSE "done"

\* Where handle_connection goes after the ACK is written.
AfterAck(h, resp) ==
    IF h.die THEN "done" ELSE IF resp # NoName THEN "forward" ELSE "done"

\* The open returned: fifo_out.write(encoded_ack + '\n'); fifo_out.close().
HandlerAckWrite(k) ==
    /\ k \in 1..Len(hs)
    /\ hs[k].pc = "ack_write"
    /\ WriteOpened(inodes, hs[k].fout, hs[k].gen)
    /\ LET w == WriteLineAndClose(inodes, hs[k].fout, AckFrame)
       IN  /\ inodes' = w.tab
           /\ hs' = IF w.ok
                    THEN [hs EXCEPT ![k].acked = TRUE, ![k].fout = 0,
                            ![k].pc = AfterAck(hs[k], response_pipe_name[hs[k].lis])]
                    ELSE [hs EXCEPT ![k].fout = 0, ![k].pc = "error"]
    /\ UNCHANGED <<cvars, fs, lpc, lgen, lfd, keep_alive, message_count,
                   max_messages, die_code, response_pipe_name, snd, stopAccepts>>

\* send(response_pipe_name, result, timeout=5, max_attempts=3) in the
\* handler's thread: the call starts with _make_fifos.
HandlerForward(k) ==
    /\ k \in 1..Len(hs)
    /\ hs[k].pc = "forward"
    /\ LET resp == response_pipe_name[hs[k].lis]
           r == Mkfifo(fs, inodes, resp)
       IN  /\ fs' = r[1]
           /\ inodes' = r[2]
           /\ snd' = [snd EXCEPT ![Fwd(k)] =
                         [Idle(resp, hs[k].result, 5, FALSE)
                             EXCEPT !.pc = "mk2",
                                    !.at = PhaseOf(resp)]]
    /\ hs' = [hs EXCEPT ![k].pc = "forwarding"]
    /\ UNCHANGED <<cvars, lpc, lgen, lfd, keep_alive, message_count, max_messages,
                   die_code, response_pipe_name, stopAccepts>>

\* handle_connection has ended: it returned, it raised, or its forwarding
\* send has returned or raised (the exception is printed as a warning and
\* the thread returns).
HandlerEnded(k) ==
    \/ hs[k].pc \in {"done", "error"}
    \/ hs[k].pc = "forwarding" /\ snd[Fwd(k)].pc = "done"

(***************************************************************************)
(* Part 6.  Specifications.                                                *)
(***************************************************************************)

\* What a sender process passes to send: any payload, timeout 0 or positive,
\* called from the main thread or from another thread.
SenderInputs ==
    {Idle(PipeName, m, t, mn) : m \in Payloads, t \in Timeouts, mn \in BOOLEAN}

\* Runs with one sender take every input, with and without a response
\* channel; runs with more senders take the first sender's input from
\* FirstInputs and the others' from OtherInputs, without response channel.
\* No listener serves the response channel in these runs (second = FALSE).
FirstInputs == {Idle(PipeName, m, 5, TRUE) : m \in {MsgA, CustomDie}}
OtherInputs == {Idle(PipeName, MsgB, 5, mn) : mn \in BOOLEAN}

Scenario(max, resp, second, cfg) ==
    \/ /\ cfg[1] \in SenderInputs
       /\ \A u \in Senders \ {1} : cfg[u] = Off
       /\ ~second
    \/ /\ cfg[1] \in FirstInputs
       /\ \A u \in Senders \ {1} : cfg[u] \in OtherInputs \cup {Off}
       /\ \E u \in Senders \ {1} : cfg[u] # Off
       /\ resp = NoName
       /\ max # 1
       /\ ~second

Init ==
    /\ fs = [p \in Paths |-> 0]
    /\ inodes = <<>>
    /\ lgen = [l \in Listeners |-> NoWait]
    /\ lfd = [l \in Listeners |-> 0]
    /\ keep_alive = [l \in Listeners |-> TRUE]
    /\ message_count = [l \in Listeners |-> 0]
    /\ hs = <<>>
    /\ stopAccepts = [l \in Listeners |-> 0]
    /\ \E max \in MaxMessagesChoices, die \in DieCodes, resp \in {NoName, RespName},
          second \in {FALSE},
          cfg \in [Senders -> SenderInputs \cup OtherInputs \cup {Off}] :
          /\ Scenario(max, resp, second, cfg)
          /\ max_messages = [l \in Listeners |-> IF l = 1 THEN max ELSE 0]
          /\ die_code = [l \in Listeners |-> die]
          /\ response_pipe_name = [l \in Listeners |-> IF l = 1 THEN resp ELSE NoName]
          /\ lpc = [l \in Listeners |-> IF l = 1 \/ second THEN "start" ELSE "off"]
          /\ snd = [u \in Units |-> IF u \in Senders THEN cfg[u] ELSE Off]
    /\ cm = <<>>
    /\ cframe = <<>>
    /\ cout = Fail
    /\ cpc = "off"
    /\ call = NoCall
    /\ wd = NoWatch

ListenerStep(l) ==
    \/ ListenMkfifo(l)
    \/ ListenMkfifoAck(l)
    \/ ListenLoop(l)
    \/ ListenAccept(l)
    \/ ListenCleanup(l)
    \/ ListenCleanupAck(l)

HandlerStep(k) ==
    \/ HandlerRead(k)
    \/ HandlerCallback(k)
    \/ HandlerAckWrite(k)
    \/ HandlerForward(k)

SendStep(u) ==
    \/ SendMkfifo(u)
    \/ SendMkfifoAck(u)
    \/ SendOpenOut(u)
    \/ SendWrite(u)
    \/ SendRead(u)
    \/ SendSelectTimeout(u)
    \/ SendAlarm(u)

Next ==
    \/ \E l \in Listeners : ListenerStep(l)
    \/ \E k \in HandlerIds : HandlerStep(k)
    \/ \E u \in Units : SendStep(u)

Spec == Init /\ [][Next]_vars


(***************************************************************************)
(* Part 7.  The codec specification: one message through send's encoding   *)
(* and handle_connection's decoding, for every text up to MaxLen code      *)
(* points over CodecAlphabet (NUL, newline, "A", a 2-byte, a 3-byte, a     *)
(* lone surrogate and a 4-byte code point).                                *)
(***************************************************************************)

CodecAlphabet == {0, 10, 65, 233, 8364, 55296, 128512}
Texts == UNION {[1..n -> CodecAlphabet] : n \in 0..MaxLen}

CodecInit ==
    /\ fs = [p \in Paths |-> 0]
    /\ inodes = <<>>
    /\ lpc = [l \in Listeners |-> "off"]
    /\ lgen = [l \in Listeners |-> NoWait]
    /\ lfd = [l \in Listeners |-> 0]
    /\ keep_alive = [l \in Listeners |-> TRUE]
    /\ message_count = [l \in Listeners |-> 0]
    /\ max_messages = [l \in Listeners |-> 0]
    /\ die_code = [l \in Listeners |-> CustomDie]
    /\ response_pipe_name = [l \in Listeners |-> NoName]
    /\ hs = <<>>
    /\ snd = [u \in Units |-> Off]
    /\ stopAccepts = [l \in Listeners |-> 0]
    /\ cm \in Texts
    /\ cframe = Fail
    /\ cout = Fail
    /\ cpc = "start"
    /\ call = NoCall
    /\ wd = NoWatch

\* send: encoded_message = b64encode(message.encode('utf-8')).decode('utf-8'),
\* written with '\n'; an unencodable text raises before anything is written.
CodecEncode ==
    /\ cpc = "start"
    /\ cframe' = EncodeFrame(cm)
    /\ cpc' = IF cframe'.ok THEN "written" ELSE "raised"
    /\ UNCHANGED <<fs, inodes, lpc, lgen, lfd, keep_alive, message_count,
                   max_messages, die_code, response_pipe_name, hs, snd,
                   stopAccepts, cm, cout, call, wd>>

\* handle_connection: readline().strip(), b64decode, decode('utf-8').
CodecDecode ==
    /\ cpc = "written"
    /\ cout' = DecodeMessage(Strip(ReadLine(cframe.val)))
    /\ cpc' = "decoded"
    /\ UNCHANGED <<fs, inodes, lpc, lgen, lfd, keep_alive, message_count,
                   max_messages, die_code, response_pipe_name, hs, snd,
                   stopAccepts, cm, cframe, call, wd>>

CodecNext == CodecEncode \/ CodecDecode

CodecSpec == CodecInit /\ [][CodecNext]_vars

(***************************************************************************)
(* Part 7a.  The chain specification: listener 1 forwards its handler's    *)
(* results to the response channel, on which listener 2 runs; one sender,  *)
(* calling from the main thread.                                           *)
(***************************************************************************)

ChainInputs == {Idle(PipeName, m, 5, TRUE) : m \in {MsgA, CustomDie}}

ChainInit ==
    /\ fs = [p \in Paths |-> 0]
    /\ inodes = <<>>
    /\ lpc = [l \in Listeners |-> "start"]
    /\ lgen = [l \in Listeners |-> NoWait]
    /\ lfd = [l \in Listeners |-> 0]
    /\ keep_alive = [l \in Listeners |-> TRUE]
    /\ message_count = [l \in Listeners |-> 0]
    /\ hs = <<>>
    /\ stopAccepts = [l \in Listeners |-> 0]
    /\ \E max \in {0}, die \in DieCodes, first \in ChainInputs :
          /\ max_messages = [l \in Listeners |-> IF l = 1 THEN max ELSE 0]
          /\ die_code = [l \in Listeners |-> die]
          /\ snd = [u \in Units |-> IF u = 1 THEN first ELSE Off]
    /\ response_pipe_name = [l \in Listeners |-> IF l = 1 THEN RespName ELSE NoName]
    /\ cm = <<>>
    /\ cframe = <<>>
    /\ cout = Fail
    /\ cpc = "off"
    /\ call = NoCall
    /\ wd = NoWatch

ChainSpec == ChainInit /\ [][Next]_vars

(***************************************************************************)
(* Part 7d.  The later-send specification: one sender process sends, and   *)
(* when its send has ended a second send is made to the same listener.     *)
(***************************************************************************)

\* The unit of the later send.
LaterUnit == NSenders

LaterInit ==
    /\ fs = [p \in Paths |-> 0]
    /\ inodes = <<>>
    /\ lgen = [l \in Listeners |-> NoWait]
    /\ lfd = [l \in Listeners |-> 0]
    /\ keep_alive = [l \in Listeners |-> TRUE]
    /\ message_count = [l \in Listeners |-> 0]
    /\ hs = <<>>
    /\ stopAccepts = [l \in Listeners |-> 0]
    /\ \E max \in {0, 2}, die \in DieCodes, resp \in {NoName, RespName},
          first \in FirstInputs :
          /\ max_messages = [l \in Listeners |-> IF l = 1 THEN max ELSE 0]
          /\ die_code = [l \in Listeners |-> die]
          /\ response_pipe_name = [l \in Listeners |-> IF l = 1 THEN resp ELSE NoName]
          /\ lpc = [l \in Listeners |-> IF l = 1 THEN "start" ELSE "off"]
          /\ snd = [u \in Units |-> IF u = 1 THEN first ELSE Off]
    /\ cm = <<>>
    /\ cframe = <<>>
    /\ cout = Fail
    /\ cpc = "off"
    /\ call = NoCall
    /\ wd = NoWatch

\* The first send has returned or raised; the next call of send is made.
SendLater ==
    /\ snd[1].pc = "done"
    /\ snd[LaterUnit].pc = "off"
    /\ \E next \in OtherInputs :
          snd' = [snd EXCEPT ![LaterUnit] = next]
    /\ UNCHANGED <<cvars, fs, inodes, lpc, lgen, lfd, keep_alive, message_count,
                   max_messages, die_code, response_pipe_name, hs, stopAccepts>>

LaterNext ==
    \/ Next
    \/ SendLater

LaterSpec == LaterInit /\ [][LaterNext]_vars

(***************************************************************************)
(* Part 7c.  The watchdog specification: listen with an idle timeout       *)
(* starts the _kill_pipe thread next to the _handler thread.  The runs     *)
(* have listener 1 with its watchdog, no listener on the response channel, *)
(* and one sender process at most; the watchdog's sends are send calls of  *)
(* its own thread and run as unit KillUnit.                                *)
(***************************************************************************)

\* Sends the watchdog may begin in a run.
MaxWatchSends == 3

\* The unit that runs the sends of _kill_pipe; no sender process uses it in
\* these runs.
KillUnit == NSenders

WatchInputs == {Off, Idle(PipeName, MsgA, 5, TRUE)}

\* listen's timeout argument: 0 (no watchdog) or a number of seconds.
IdleTimeouts == {0, 1}

WatchInit ==
    /\ fs = [p \in Paths |-> 0]
    /\ inodes = <<>>
    /\ lgen = [l \in Listeners |-> NoWait]
    /\ lfd = [l \in Listeners |-> 0]
    /\ keep_alive = [l \in Listeners |-> TRUE]
    /\ message_count = [l \in Listeners |-> 0]
    /\ hs = <<>>
    /\ stopAccepts = [l \in Listeners |-> 0]
    /\ \E max \in {0}, die \in DieCodes, resp \in {NoName, RespName},
          timeout \in IdleTimeouts, first \in WatchInputs :
          /\ max_messages = [l \in Listeners |-> IF l = 1 THEN max ELSE 0]
          /\ die_code = [l \in Listeners |-> die]
          /\ response_pipe_name = [l \in Listeners |-> IF l = 1 THEN resp ELSE NoName]
          /\ lpc = [l \in Listeners |-> IF l = 1 THEN "start" ELSE "off"]
          /\ snd = [u \in Units |-> IF u = 1 THEN first ELSE Off]
          /\ wd = NewWatch(timeout)
    /\ cm = <<>>
    /\ cframe = <<>>
    /\ cout = Fail
    /\ cpc = "off"
    /\ call = NoCall

WatchOnly ==
    UNCHANGED <<fs, inodes, lpc, lgen, lfd, keep_alive, message_count,
                max_messages, die_code, response_pipe_name, hs, stopAccepts,
                cm, cframe, cout, cpc, call>>

\* pipe_thread.is_alive(): the _handler thread has not returned yet.
IsAlive(l) == lpc[l] # "closed"

\* A watchdog that does not wait for end_time.
EndTimeAtOnce(w) == TRUE

\* `while time.time() < end_time` is left: end_time = start_time + timeout
\* is reached.
EndTimeReached(w) == w.now >= w.timeout

\* _kill_pipe, first loop, time.sleep(0.1): time passes.  In the runs with a
\* sender process its send is made, and has ended, within the idle timeout.
KillSleep ==
    /\ wd.pc = "sleep"
    /\ ~EndTimeReached(wd)
    /\ snd[1].pc \in {"off", "done"}
    /\ wd' = [wd EXCEPT !.now = @ + 1]
    /\ UNCHANGED snd
    /\ WatchOnly

\* _kill_pipe, first loop: end_time is reached.
KillExpire ==
    /\ wd.pc = "sleep"
    /\ EndTimeReached(wd)
    /\ wd' = [wd EXCEPT !.pc = "check"]
    /\ UNCHANGED snd
    /\ WatchOnly

\* _kill_pipe, `while pipe_thread is not None and pipe_thread.is_alive()`:
\* the loop is left, or send(pipe_name, die_code, timeout=5, max_attempts=5)
\* is called in the watchdog's thread.
KillCheck ==
    /\ wd.pc = "check"
    /\ IF ~IsAlive(1)
       THEN /\ wd' = [wd EXCEPT !.pc = "ended"]
            /\ UNCHANGED snd
       ELSE /\ wd.sends < MaxWatchSends
            /\ wd' = [wd EXCEPT !.pc = "send", !.sends = @ + 1]
            /\ snd' = [snd EXCEPT ![KillUnit] =
                          Idle(pipe_name(1), die_code[1], 5, FALSE)]
    /\ WatchOnly

\* The send has returned true: pipe_thread.join(timeout=0.1) and back to the
\* test; or it has raised, and the exception ends the watchdog's thread
\* (_kill_pipe catches nothing).
KillJoin ==
    /\ wd.pc = "send"
    /\ snd[KillUnit].pc = "done"
    /\ wd' = [wd EXCEPT !.pc = IF snd[KillUnit].outcome = "true"
                               THEN "check" ELSE "dead"]
    /\ UNCHANGED snd
    /\ WatchOnly

WatchNext ==
    \/ Next
    \/ KillSleep
    \/ KillExpire
    \/ KillCheck
    \/ KillJoin

WatchSpec == WatchInit /\ [][WatchNext]_vars

(***************************************************************************)
(* Part 7b.  The call specification: one call of send or listen on either  *)
(* backend, seen from its caller.  What the operating system answers to a  *)
(* call (mkfifo, CreateFile, WriteFile, ReadFile, the wait) is an input.   *)
(***************************************************************************)

MaxNameLen == 2
MaxTries == 3
MaxClock == 3

\* Channel names over space, "/", "\" and "a".
NameChars == {32, 47, 92, 97}
Names == UNION {[1..n -> NameChars] : n \in 0..MaxNameLen}
AckSuffix == <<95, 97, 99, 107>>

\* _validate_pipe_name: not empty, not only whitespace, no path separator.
ValidPipeName(name) ==
    /\ name # <<>>
    /\ Strip(name) # <<>>
    /\ \A i \in 1..Len(name) : name[i] \notin {47, 92}
    /\ \E i \in 1..Len(name) : ~IsSpace(name[i])

\* What os.mkfifo(path, 0o666) can answer: the empty path does not exist; a
\* path with "/" depends on the directories it names; any other path is
\* created, exists already, or lies in a directory without write permission.
MkfifoOutcomes(path) ==
    IF path = <<>> THEN {"ENOENT"}
    ELSE IF \E i \in 1..Len(path) : path[i] = 47
    THEN {"ENOENT", "EEXIST", "EACCES", "created"}
    ELSE {"EEXIST", "EACCES", "created"}

\* _make_fifos(pipe_name, ack_pipe_name) under the answers r1 and r2:
\* FileExistsError is passed over, PermissionError and any other error
\* raise PipeError, and the second mkfifo is made only after the first.
MakeFifos(name, r1, r2) ==
    LET first == IF r1 = "created" THEN {name} ELSE {}
        second == IF r2 = "created" THEN {name \o AckSuffix} ELSE {}
    IN  IF r1 = "EACCES"
        THEN [ok |-> FALSE, kind |-> "PERMISSION_DENIED", created |-> {}]
        ELSE IF r1 = "ENOENT"
        THEN [ok |-> FALSE, kind |-> "UNKNOWN", created |-> {}]
        ELSE IF r2 = "EACCES"
        THEN [ok |-> FALSE, kind |-> "PERMISSION_DENIED", created |-> first]
        ELSE IF r2 = "ENOENT"
        THEN [ok |-> FALSE, kind |-> "UNKNOWN", created |-> first]
        ELSE [ok |-> TRUE, kind |-> "none", created |-> first \cup second]

\* What os.unlink(path) can answer: the entry is removed, there is no such
\* entry, or the directory does not allow the removal.
UnlinkOutcomes == {"removed", "ENOENT", "EACCES"}

\* An unlink that failed in _cleanup_fifos: FileNotFoundError is passed
\* over, any other exception is kept.
UnlinkFailed(u) == u \notin {"removed", "ENOENT"}

\* _cleanup_fifos(pipe_name, ack_pipe_name) under the answers u1 and u2:
\* both unlinks are made, each in its own try; the tuple returned is
\* (pipe_open, ack_pipe_open, exceptions).
CleanupFifos(u1, u2) ==
    [pipe_open |-> UnlinkFailed(u1),
     ack_pipe_open |-> UnlinkFailed(u2),
     exceptions |-> (IF UnlinkFailed(u1) THEN <<u1>> ELSE <<>>)
                    \o (IF UnlinkFailed(u2) THEN <<u2>> ELSE <<>>),
     unlinks |-> <<u1, u2>>]

\* l.164-177, the except clause around _make_fifos: the PipeError raised
\* names the pipes that are still there and lists the exceptions; with
\* nothing left the message is "Failed to create pipes".
ReportOnCreate(c) ==
    [raised |-> TRUE, pipe_open |-> c.pipe_open,
     ack_pipe_open |-> c.ack_pipe_open, exceptions |-> c.exceptions]

\* l.195-197, the finally clause of the accept loop: the tuple returned by
\* _cleanup_fifos is not read.
ReportOnExit(c) == NoReport

\* The SIGALRM handlers a process can have in place when it calls send:
\* the default action (or any handler installed from Python), or a handler
\* installed by code outside Python.
PreviousHandlers == {"SIG_DFL", "foreign"}

\* What signal.signal returns for the handler it replaces: the handler, or
\* None for one that was not installed from Python.
SignalReturn(previous) == IF previous = "foreign" THEN "None" ELSE previous

\* l.32-40: in the main thread alarm_handler is installed and
\* signal.alarm(timeout) arms the timer (alarm(0) arms nothing); in any
\* other thread signal.signal raises ValueError and use_signal is cleared.
Arm(c) ==
    IF c.main
    THEN [c EXCEPT !.sigalrm = "alarm_handler", !.alarm = c.timeout > 0]
    ELSE c

\* l.76-80, the finally clause run to its end: with use_signal the alarm is
\* cancelled and the old handler is put back if signal.signal returned one.
Disarm(c) ==
    IF c.main
    THEN [c EXCEPT !.alarm = FALSE,
                   !.sigalrm = IF SignalReturn(c.previous) # "None"
                               THEN c.previous ELSE @]
    ELSE c

\* The timer armed by the call has run out: SIGALRM is delivered and
\* alarm_handler raises PipeError(TIMEOUT) at the statement being executed.
AlarmFires(c) == c.alarm /\ c.timeout > 0 /\ c.now >= c.timeout

\* A retry loop that never looks at the clock.
DeadlineIgnored(c) == FALSE

\* The deadline of a call with a positive timeout has passed.
DeadlinePassed(c) == c.timeout > 0 /\ c.now >= c.timeout

CallOnly ==
    UNCHANGED <<fs, inodes, lpc, lgen, lfd, keep_alive, message_count,
                max_messages, die_code, response_pipe_name, hs, snd,
                stopAccepts, cm, cframe, cout, cpc, wd>>

CallInit ==
    /\ fs = [p \in Paths |-> 0]
    /\ inodes = <<>>
    /\ lpc = [l \in Listeners |-> "off"]
    /\ lgen = [l \in Listeners |-> NoWait]
    /\ lfd = [l \in Listeners |-> 0]
    /\ keep_alive = [l \in Listeners |-> TRUE]
    /\ message_count = [l \in Listeners |-> 0]
    /\ max_messages = [l \in Listeners |-> 0]
    /\ die_code = [l \in Listeners |-> CustomDie]
    /\ response_pipe_name = [l \in Listeners |-> NoName]
    /\ hs = <<>>
    /\ snd = [u \in Units |-> Off]
    /\ stopAccepts = [l \in Listeners |-> 0]
    /\ cm = <<>>
    /\ cframe = <<>>
    /\ cout = Fail
    /\ cpc = "off"
    /\ wd = NoWatch
    /\ \E backend \in {"posix", "win"}, name \in Names :
          \/ \E t \in {0, 2}, n \in {0, 1, 2}, mn \in BOOLEAN,
                h \in PreviousHandlers :
                /\ backend = "win" => ~mn /\ h = "SIG_DFL"
                /\ ~mn => h = "SIG_DFL"
                /\ call = [NewCall(backend, "send", name, t, n) EXCEPT
                              !.main = mn, !.previous = h, !.sigalrm = h]
          \/ call = NewCall(backend, "listen", name, 0, 0)

\* Time passes while the call is under way.
Tick ==
    /\ call.pc \notin {"off", "done"}
    /\ call.now < MaxClock
    /\ call' = [call EXCEPT !.now = @ + 1]
    /\ CallOnly

\* POSIX send, l.24-40: _make_fifos, an error is raised to the caller;
\* then the alarm is armed.
PosixSendMakeFifos ==
    /\ call.backend = "posix" /\ call.op = "send" /\ call.pc = "call"
    /\ \E r1 \in MkfifoOutcomes(call.name),
          r2 \in MkfifoOutcomes(call.name \o AckSuffix) :
          LET m == MakeFifos(call.name, r1, r2)
          IN  call' = IF m.ok
                      THEN [Arm(call) EXCEPT !.pc = "attempt", !.tries = 1,
                                             !.created = m.created]
                      ELSE [call EXCEPT !.pc = "done", !.outcome = m.kind,
                                        !.created = m.created]
    /\ CallOnly

\* POSIX send, l.42-74: the one handshake.  It returns true, or raises
\* PipeError: Timeout (the alarm, or select in a thread), Unknown (a reply
\* other than ACK), or Unknown for an error of the operating system
\* (l.73-74); the finally clause is entered.  An alarm that has run out
\* ends the handshake with Timeout.  max_attempts is not read.
PosixAttempt ==
    /\ call.backend = "posix" /\ call.pc = "attempt"
    /\ \E r \in {"true", "TIMEOUT", "UNKNOWN", "oserror"} :
          /\ r = "TIMEOUT" => DeadlinePassed(call)
          /\ r # "TIMEOUT" => ~AlarmFires(call)
          /\ call' = [call EXCEPT !.pc = "finally",
                                  !.oserror = (r = "oserror"),
                                  !.outcome = IF r = "oserror" THEN "UNKNOWN"
                                              ELSE r,
                                  !.alarm = IF r = "TIMEOUT" THEN FALSE ELSE @]
    /\ CallOnly

\* POSIX send, l.76-85, the finally clause: signal.alarm(0) and the old
\* handler put back; or the alarm runs out before signal.alarm(0) is
\* reached, alarm_handler raises inside the finally clause and the rest of
\* the clause is not run.
PosixFinally ==
    /\ call.backend = "posix" /\ call.pc = "finally"
    /\ call' = IF AlarmFires(call)
               THEN [call EXCEPT !.pc = "done", !.outcome = "TIMEOUT",
                                 !.alarm = FALSE]
               ELSE [Disarm(call) EXCEPT !.pc = "done"]
    /\ CallOnly

\* POSIX listen, l.11-17: the _handler thread is started and listen returns.
PosixListen ==
    /\ call.backend = "posix" /\ call.op = "listen" /\ call.pc = "call"
    /\ call' = [call EXCEPT !.pc = "thread", !.thread = "running",
                            !.outcome = "returned"]
    /\ CallOnly

\* POSIX _handler, l.162-177, in the thread: _make_fifos, then the accept
\* loop; on an error _cleanup_fifos and a PipeError raised in the thread.
PosixHandlerMakeFifos ==
    /\ call.backend = "posix" /\ call.pc = "thread"
    /\ \E r1 \in MkfifoOutcomes(call.name),
          r2 \in MkfifoOutcomes(call.name \o AckSuffix),
          u1 \in UnlinkOutcomes, u2 \in UnlinkOutcomes :
          LET m == MakeFifos(call.name, r1, r2)
              c == CleanupFifos(u1, u2)
          IN  call' = IF m.ok
                      THEN [call EXCEPT !.pc = "serve", !.created = m.created]
                      ELSE [call EXCEPT !.pc = "done", !.thread = "raised",
                                        !.unlinks = c.unlinks,
                                        !.report = ReportOnCreate(c)]
    /\ CallOnly

\* POSIX _handler, l.179-195: the accept loop is left, because keep_alive
\* was cleared or because open raised, and the finally clause is entered.
PosixLoopExit ==
    /\ call.backend = "posix" /\ call.pc = "serve"
    /\ \E why \in {"stopping", "failing"} :
          call' = [call EXCEPT !.pc = "cleanup", !.thread = why]
    /\ CallOnly

\* POSIX _handler, l.195-197: `finally: _cleanup_fifos(...)`; then the
\* thread ends, with the exception of the loop if there was one.
PosixCleanup ==
    /\ call.backend = "posix" /\ call.pc = "cleanup"
    /\ \E u1 \in UnlinkOutcomes, u2 \in UnlinkOutcomes :
          LET c == CleanupFifos(u1, u2)
          IN  call' = [call EXCEPT !.pc = "done",
                                   !.thread = IF @ = "stopping" THEN "ended"
                                              ELSE "died",
                                   !.unlinks = c.unlinks,
                                   !.report = ReportOnExit(c)]
    /\ CallOnly

\* Windows send l.48 and listen l.35: _validate_pipe_name; then listen
\* starts the _handler thread and returns.
WinValidate ==
    /\ call.backend = "win" /\ call.pc = "call"
    /\ call' = IF ~ValidPipeName(call.name)
               THEN [call EXCEPT !.pc = "done", !.outcome = "INVALID_PIPE_NAME"]
               ELSE IF call.op = "listen"
               THEN [call EXCEPT !.pc = "thread", !.thread = "running",
                                 !.outcome = "returned"]
               ELSE [call EXCEPT !.pc = "connect"]
    /\ CallOnly

\* Windows _handler, l.242-256, in the thread: CreateNamedPipe; an error is
\* raised in the thread.
WinHandlerCreatePipe ==
    /\ call.backend = "win" /\ call.pc = "thread"
    /\ \E r \in {"ok", "error"} :
          call' = IF r = "ok"
                  THEN [call EXCEPT !.pc = "done", !.created = {call.name}]
                  ELSE [call EXCEPT !.pc = "done", !.thread = "raised"]
    /\ CallOnly

\* Windows send, l.52-73 and 177-195: CreateFile, before the attempt loop.
\* ERROR_PIPE_BUSY raises PermissionDenied, any other error
\* ConnectionFailed.
WinConnect ==
    /\ call.pc = "connect"
    /\ \E r \in {"ok", "busy", "error"} :
          call' = CASE r = "ok" -> [call EXCEPT !.pc = "loop"]
                    [] r = "busy" -> [call EXCEPT !.pc = "done",
                                         !.outcome = "PERMISSION_DENIED"]
                    [] OTHER -> [call EXCEPT !.pc = "done",
                                    !.outcome = "CONNECTION_FAILED"]
    /\ CallOnly

\* Windows send, l.78 and 204: `while attempt < max_attempts or
\* max_attempts == 0`; when the loop is left the call returns False.
WinLoop ==
    /\ call.pc = "loop"
    /\ IF call.attempt < call.max_attempts \/ call.max_attempts = 0
       THEN /\ call.tries < MaxTries
            /\ call' = [call EXCEPT !.pc = "attempt", !.tries = @ + 1]
       ELSE call' = [call EXCEPT !.pc = "done", !.outcome = "false"]
    /\ CallOnly

\* Windows send, l.79-176: one attempt.  WriteFile and the read of the ACK:
\* the ACK (true), another reply or a failed wait (Unknown), the wait timed
\* out (Timeout), or pywintypes.error: Timeout when the deadline has passed,
\* else attempt += 1, a sleep, and back to the loop test.
WinAttempt ==
    /\ call.backend = "win" /\ call.pc = "attempt"
    /\ \E r \in {"ack", "other", "wait_timeout", "winerror"} :
          /\ r = "wait_timeout" => call.timeout > 0
          /\ call' =
               CASE r = "ack" -> [call EXCEPT !.pc = "done", !.oserror = FALSE,
                                     !.outcome = "true"]
                 [] r = "other" -> [call EXCEPT !.pc = "done", !.oserror = FALSE,
                                       !.outcome = "UNKNOWN"]
                 [] r = "wait_timeout" ->
                       [call EXCEPT !.pc = "done", !.oserror = FALSE,
                           !.outcome = "TIMEOUT",
                           !.now = IF @ < call.timeout THEN call.timeout ELSE @]
                 [] OTHER ->
                       IF DeadlinePassed(call)
                       THEN [call EXCEPT !.pc = "done", !.oserror = TRUE,
                                !.outcome = "TIMEOUT"]
                       ELSE [call EXCEPT !.pc = "loop", !.oserror = TRUE,
                                !.attempt = @ + 1]
    /\ CallOnly

CallNext ==
    \/ Tick
    \/ PosixSendMakeFifos
    \/ PosixAttempt
    \/ PosixFinally
    \/ PosixListen
    \/ PosixHandlerMakeFifos
    \/ PosixLoopExit
    \/ PosixCleanup
    \/ WinValidate
    \/ WinHandlerCreatePipe
    \/ WinConnect
    \/ WinLoop
    \/ WinAttempt

CallSpec == CallInit /\ [][CallNext]_vars

(***************************************************************************)
(* Part 8.  Properties.                                                    *)
(***************************************************************************)

\* The positions of newline characters in a frame.
Newlines(f) == {i \in 1..Len(f) : f[i] = NL}

\* C5: the framing codec is a round trip.  The frame send writes for a text
\* holds exactly one newline, its terminator, so it is exactly one line, and
\* the listener's decoding of that line yields the text.
C5_CodecRoundTrip ==
    /\ cpc \in {"written", "decoded"} =>
          /\ Newlines(cframe.val) = {Len(cframe.val)}
          /\ ReadLine(cframe.val) = cframe.val
    /\ cpc = "decoded" => cout = Ok(cm)

\* A text with an embedded newline and a multi-byte character has gone
\* through the codec.
C5_Witness ==
    /\ cpc = "decoded"
    /\ Len(cm) = MaxLen
    /\ \E i \in 1..Len(cm) : cm[i] = NL
    /\ \E i \in 1..Len(cm) : cm[i] > 127

Called == {k \in 1..Len(hs) : hs[k].called}
SendsOf(l, m) ==
    {u \in Units : snd[u].pc # "off" /\ snd[u].pipe = pipe_name(l)
                                     /\ snd[u].message = m}

\* C2: the handler is invoked at most once per send and only with a payload
\* some sender passed to send.  For every invocation, the invocations of the
\* same listener with the same payload are no more than the send calls made
\* to that listener's name with that payload: nothing is delivered twice,
\* altered or invented.
C2_NoDuplicateNoInvention ==
    \A k \in Called :
        Cardinality({j \in Called : /\ hs[j].lis = hs[k].lis
                                   /\ hs[j].decoded = hs[k].decoded})
            <= Cardinality(SendsOf(hs[k].lis, hs[k].decoded))

\* Two senders, two connections, each handler invocation with the payload
\* of a different sender, and both sends returned true.
C2_Witness ==
    /\ \E j, k \in Called : hs[j].decoded = MsgA /\ hs[k].decoded = MsgB
    /\ \A u \in Senders : snd[u].outcome = "true"

\* One sender only; the callback has raised for no connection.
SingleSender == \A u \in Senders \ {1} : snd[u].pc = "off"
NoCallbackRaised == \A k \in Called : hs[k].result # <<>>

\* C3: one sender, a running listener, an ordinary payload, a handler that
\* returns normally and no timeout: the send returns true, the handler having
\* been invoked with the payload first.  Finite-run form: once such a send
\* has ended without a timeout and the handler has returned for its payload,
\* its outcome is true; and a true outcome has a handler invocation behind.
C3_SingleSendReturnsTrue ==
    SingleSender /\ NoCallbackRaised /\ snd[1].message \in {MsgA, MsgB} =>
        /\ (/\ snd[1].at = "up"
            /\ snd[1].pc = "done"
            /\ snd[1].outcome # "TIMEOUT"
            /\ \E k \in Called : hs[k].decoded = snd[1].message)
              => snd[1].outcome = "true"
        /\ snd[1].outcome = "true"
              => \E k \in Called : hs[k].decoded = snd[1].message

\* C4: the empty string is handled like any other payload.  Finite-run
\* form: a connection that read the frame of the empty payload (the bare
\* terminator) and has ended has invoked the handler with the empty string
\* and written the ACK; and the send of the empty payload, once ended
\* without a timeout, returned true.
C4_EmptyPayloadHandled ==
    /\ \A k \in 1..Len(hs) :
          hs[k].line = <<NL>> /\ HandlerEnded(k) =>
              /\ hs[k].called
              /\ hs[k].decoded = Empty
              /\ hs[k].acked
    /\ \A u \in Senders :
          (/\ snd[u].message = Empty
           /\ snd[u].at = "up"
           /\ snd[u].pc = "done"
           /\ snd[u].outcome # "TIMEOUT") => snd[u].outcome = "true"

\* The connections that read a frame decoding to the listener's die code.
GotDieCode(k) ==
    /\ hs[k].pc # "read"
    /\ DecodeMessage(Strip(hs[k].line)) = Ok(die_code[hs[k].lis])

\* C6: a connection whose decoded payload equals the configured die code
\* requests the accept loop to stop (keep_alive is cleared), writes the ACK
\* (a connection that has returned has written it), never invokes the
\* handler and never forwards to the response channel.
C6_DieCodeConnection ==
    \A k \in 1..Len(hs) :
        /\ GotDieCode(k) <=> hs[k].die
        /\ hs[k].die =>
              /\ ~keep_alive[hs[k].lis]
              /\ ~hs[k].called
              /\ hs[k].pc \in {"ack_write", "done", "error"}
              /\ hs[k].pc = "done" => hs[k].acked
              /\ hs[k].pc = "error" => ~hs[k].acked
              /\ snd[Fwd(k)].pc = "off"

\* A listener with a response channel received the die code: the connection
\* has returned with the ACK written, and the sender has read it.
C6_Witness ==
    \E k \in 1..Len(hs) :
        /\ hs[k].die /\ hs[k].pc = "done" /\ hs[k].acked
        /\ response_pipe_name[hs[k].lis] = RespName
        /\ snd[1].message = die_code[hs[k].lis]
        /\ snd[1].outcome = "true"

\* C7: after a connection handler has processed the die code (keep_alive
\* cleared), the accept loop accepts at most one more connection before it
\* exits: stopAccepts counts the accepts made while such a connection
\* exists, and after that one accept the loop is not waiting for another.
C7_AtMostOneMoreAccept ==
    \A l \in Listeners :
        /\ stopAccepts[l] <= 1
        /\ stopAccepts[l] = 1 => lpc[l] # "accept"

\* The die code was processed while the loop was waiting in open(); the loop
\* accepted the connection of the second sender and then ended.
C7_Witness ==
    /\ stopAccepts[1] = 1
    /\ lpc[1] = "closed"
    /\ max_messages[1] = 0
    /\ \E k \in 1..Len(hs) : hs[k].die /\ hs[k].acked
    /\ \E k \in Called : hs[k].decoded = MsgB

\* C8: receiving the die code terminates the listener even if no further
\* sender connects.  Finite-run form: in a state where the die code has been
\* received and acknowledged, the sender has its answer and no unit can take
\* another step, the accept loop has exited and both channels are gone.
C8_DieCodeTerminatesListener ==
    \A l \in Listeners :
        (/\ \E k \in Conns(l) : hs[k].die /\ hs[k].acked
         /\ \A u \in Senders : snd[u].pc \in {"off", "done"}
         /\ Cardinality(Conns(l)) < MaxConn
         /\ ~ENABLED Next)
            => /\ lpc[l] = "closed"
               /\ fs[pipe_name(l)] = 0
               /\ fs[AckName(pipe_name(l))] = 0

\* C9: once the accept loop of a listener has stopped (the loop is left:
\* the listener is in its finally clause or has ended), a send called
\* afterwards with a positive timeout never returns true, ends only with
\* PipeError Timeout or ConnectionFailed, and the handler is not invoked
\* with its payload.
C9_LateSendFails ==
    \A u \in Senders :
        snd[u].at \in {"stopping", "closed"} /\ snd[u].timeout > 0 =>
            /\ snd[u].outcome # "true"
            /\ snd[u].pc = "done" =>
                  snd[u].outcome \in {"TIMEOUT", "CONNECTION_FAILED"}
            /\ Cardinality({k \in Called : hs[k].decoded = snd[u].message})
                  <= Cardinality(SendsOf(1, snd[u].message) \ {u})

\* The accept loop has been left: the listener is in its finally clause or
\* has ended.
Stopped(l) == lpc[l] \in {"cleanup", "cleanup2", "closed"}

\* C10 as stated: a listener with max_messages = N > 0 accepts exactly N
\* connections and then stops, whatever their payloads are, the die code
\* included; with max_messages = 0 the count never stops the loop.
C10_ExactlyNAccepts ==
    \A l \in Listeners :
        /\ max_messages[l] > 0 /\ Stopped(l) =>
              Cardinality(Conns(l)) = max_messages[l]
        /\ max_messages[l] = 0 /\ ~keep_alive[l] =>
              \E k \in Conns(l) : hs[k].die

\* C10 amended: a listener with max_messages = N > 0 accepts at most N
\* connections; it has stopped after exactly N unless a connection that
\* received the die code stopped it earlier; message_count is the number of
\* accepted connections, whatever they carried; the Nth accept clears
\* keep_alive; with max_messages = 0 nothing is counted and only the die
\* code clears keep_alive.
C10_AtMostNAccepts ==
    \A l \in Listeners :
        /\ max_messages[l] > 0 =>
              /\ message_count[l] = Cardinality(Conns(l))
              /\ Cardinality(Conns(l)) <= max_messages[l]
              /\ Cardinality(Conns(l)) = max_messages[l] =>
                    ~keep_alive[l] /\ lpc[l] # "accept"
              /\ Stopped(l) =>
                    \/ Cardinality(Conns(l)) = max_messages[l]
                    \/ \E k \in Conns(l) : hs[k].die
        /\ max_messages[l] = 0 =>
              /\ message_count[l] = 0
              /\ ~keep_alive[l] => \E k \in Conns(l) : hs[k].die

\* A listener with max_messages = 2 has ended after two accepted
\* connections, one of which carried no message (its sender had already
\* been accepted once) and never reached the handler.
C10_Witness ==
    /\ max_messages[1] = 2
    /\ lpc[1] = "closed"
    /\ Cardinality(Conns(1)) = 2
    /\ \E k \in Conns(1) : hs[k].pc = "done" /\ hs[k].line = <<>>
    /\ \E k \in Conns(1) : hs[k].called
    /\ \A k \in Conns(1) : ~hs[k].die

\* C11: with max_messages = N > 0 each of the first N sends is accepted as
\* exactly one connection, is processed and returns true, the Nth included,
\* the die code included; the loop's exit and cleanup never cut off an
\* accepted connection.  Finite-run form for the first send: the listener
\* never has more connections than sends were made; the connection's ACK
\* is only ever written into the acknowledgement FIFO; and the send, once
\* ended without a timeout, returned true.
C11_CapNeverCutsOff ==
    SingleSender /\ NoCallbackRaised /\ max_messages[1] > 0
                 /\ snd[1].message \in {MsgA, MsgB, CustomDie} =>
        /\ Cardinality(Conns(1)) <= Cardinality(SendsOf(1, snd[1].message))
        /\ \A k \in Conns(1) :
              hs[k].pc = "ack_write" => inodes[hs[k].fout].kind = "fifo"
        /\ (/\ snd[1].at = "up"
            /\ snd[1].pc = "done"
            /\ snd[1].outcome # "TIMEOUT") => snd[1].outcome = "true"

\* The units that cannot take a step.  An accept loop: not started, ended,
\* or inside open() with no writer yet.
ListenerAtRest(l) ==
    \/ lpc[l] \in {"off", "closed"}
    \/ lpc[l] = "accept" /\ ~ReadOpened(inodes, lfd[l], lgen[l])

\* A send call: not made, ended, or inside an open() or a read that nothing
\* answers, with no timeout to end it (no alarm is armed outside the main
\* thread, nor with timeout 0; the select is reached after the opens only).
SendAtRest(u) ==
    \/ snd[u].pc \in {"off", "done"}
    \/ /\ ~(snd[u].main /\ snd[u].timeout > 0)
       /\ \/ snd[u].pc = "write" /\ ~WriteOpened(inodes, snd[u].fd, snd[u].gen)
          \/ snd[u].pc = "read" /\ ~ReadOpened(inodes, snd[u].fd, snd[u].gen)
          \/ snd[u].pc = "read" /\ snd[u].main
                                /\ ~Readable(inodes[snd[u].fd])

\* A connection thread: ended, inside a read or an open() that nothing
\* answers, or inside a forwarding send that is at rest.
HandlerAtRest(k) ==
    \/ hs[k].pc \in {"done", "error"}
    \/ hs[k].pc = "read" /\ ~Readable(inodes[hs[k].fin])
    \/ hs[k].pc = "ack_write" /\ ~WriteOpened(inodes, hs[k].fout, hs[k].gen)
    \/ hs[k].pc = "forwarding" /\ SendAtRest(Fwd(k))

\* No unit can take another step, and no accept loop is held back by the
\* bound on connections: the run is over.
Quiescent ==
    /\ \A l \in Listeners : ListenerAtRest(l) /\ Cardinality(Conns(l)) < MaxConn
    /\ \A u \in Senders : SendAtRest(u)
    /\ \A k \in 1..Len(hs) : HandlerAtRest(k)

\* C12: a send with a positive timeout to a name on which no listener is or
\* becomes active always terminates with PipeError Timeout (or
\* ConnectionFailed), from whichever thread it is called.  Finite-run form:
\* when the run is over, every such send has ended, with one of these kinds.
C12_SendWithoutListenerTerminates ==
    \A u \in Units :
        (/\ snd[u].pc # "off"
         /\ snd[u].at = "none"
         /\ snd[u].timeout > 0
         /\ Quiescent)
            => /\ snd[u].pc = "done"
               /\ snd[u].outcome \in {"TIMEOUT", "CONNECTION_FAILED"}

\* C13: when the handler has not finished (no ACK written) and the sender's
\* positive timeout expires, the send raises PipeError Timeout and does not
\* return true, and the listener's processing goes on.  State form, one
\* sender: while the handler of the sender's message is still to return, a
\* sender waiting for the ACK can be ended by its timeout, the send has not
\* returned true, and the handler's step stays possible whatever the sender
\* did.
C13_TimeoutWhileHandlerRuns ==
    \A u \in Senders, k \in 1..Len(hs) :
        (/\ SingleSender
         /\ snd[u].timeout > 0
         /\ hs[k].pc = "callback"
         /\ hs[k].decoded = snd[u].message)
            => /\ snd[u].pc = "read" =>
                     ENABLED (SendAlarm(u) \/ SendSelectTimeout(u))
               /\ snd[u].outcome # "true"
               /\ ENABLED HandlerCallback(k)

\* C14: a send with timeout = 0 waits for the ACK without limit: it never
\* raises Timeout, from whichever thread it is called, and returns true once
\* the listener has written the ACK.
C14_ZeroTimeoutNeverTimesOut ==
    \A u \in Senders :
        snd[u].timeout = 0 =>
            /\ snd[u].outcome # "TIMEOUT"
            /\ (/\ SingleSender /\ max_messages[1] = 0
                /\ snd[u].pc = "done"
                /\ \E k \in Conns(1) : hs[k].acked) => snd[u].outcome = "true"

\* C15: send runs an attempt loop governed by max_attempts.  With
\* max_attempts = N > 0 no more than N attempts are begun; and a send ends
\* on an attempt that failed with an error of the operating system only
\* when its attempts are used up (or its deadline has passed): as long as
\* attempts remain, or without bound when max_attempts = 0, another attempt
\* follows.
C15_AttemptLoop ==
    call.op = "send" =>
        /\ call.max_attempts > 0 => call.tries <= call.max_attempts
        /\ (call.pc = "done" /\ call.oserror /\ ~DeadlinePassed(call)) =>
              /\ call.max_attempts > 0
              /\ call.tries = call.max_attempts

\* C16: send and listen called with an invalid channel name (empty, only
\* whitespace, or with "/" or "\") fail with PipeError InvalidPipeName
\* before any resource is touched: the call goes from its start straight to
\* its end, creates no channel, starts no thread, begins no attempt, and its
\* outcome is InvalidPipeName.
C16_InvalidNameFailsFast ==
    call.pc # "off" /\ ~ValidPipeName(call.name) =>
        /\ call.pc \in {"call", "done"}
        /\ call.created = {}
        /\ call.thread = "none"
        /\ call.tries = 0
        /\ call.pc = "done" => call.outcome = "INVALID_PIPE_NAME"

\* C20: a failure to start the listener (its channel cannot be created) is
\* raised as a PipeError to the caller of listen, not lost in the background
\* thread: when the thread listen started has raised on the creation of the
\* channel, the listen call did not return normally.
C20_ListenStartFailureRaised ==
    call.op = "listen" /\ call.thread = "raised" => call.outcome # "returned"

\* The connections of listener l whose message was handled successfully:
\* the handler returned and the ACK was written.
Handled(l) == {k \in Conns(l) : hs[k].called /\ hs[k].acked}

ForwardFailed(k) ==
    /\ hs[k].pc = "forwarding"
    /\ \/ snd[Fwd(k)].pc = "done" /\ snd[Fwd(k)].outcome # "true"
       \/ snd[Fwd(k)].pc # "done" /\ SendAtRest(Fwd(k))

\* C18: a failed delivery of the handler's result to the response channel
\* does not fail the original request.  A connection reaches the forward
\* only with its callback called and its ACK written; and with one sender
\* and no cap on the connections, when the forward has failed the handler
\* was invoked with the sender's message, the accept loop is still running
\* with its flag set, a send that has ended without timing out returned
\* true, and at the end of the run the send has ended.
C18_ForwardFailureKeepsRequest ==
    \A k \in 1..Len(hs) :
        hs[k].pc \in {"forward", "forwarding"} =>
            /\ hs[k].called /\ hs[k].acked
            /\ ForwardFailed(k) /\ SingleSender /\ max_messages[hs[k].lis] = 0 =>
                  /\ hs[k].decoded = snd[1].message
                  /\ keep_alive[hs[k].lis]
                  /\ lpc[hs[k].lis] \in {"loop", "accept"}
                  /\ snd[1].pc = "done" /\ snd[1].outcome # "TIMEOUT" =>
                        snd[1].outcome = "true"
                  /\ Quiescent => snd[1].pc = "done"

\* The forward found no listener on the response channel and rests in its
\* open(); the original send has returned true and the loop waits for the
\* next connection.
C18_Witness ==
    /\ Quiescent /\ SingleSender
    /\ lpc[2] = "off" /\ lpc[1] = "accept" /\ keep_alive[1]
    /\ snd[1].outcome = "true"
    /\ \E k \in Conns(1) :
          /\ ForwardFailed(k) /\ snd[Fwd(k)].pc = "write"
          /\ hs[k].called /\ hs[k].acked
          /\ hs[k].decoded = snd[1].message

\* The run of a listener with its watchdog is over: every unit is at rest
\* and the watchdog has ended or rests inside a send.
WatchRunOver ==
    /\ Quiescent
    /\ \/ wd.pc \in {"ended", "dead"}
       \/ wd.pc = "send" /\ snd[KillUnit].pc # "done"

\* C19: a listener started with an idle timeout and receiving nothing from
\* other senders terminates once the timeout has elapsed, its channels
\* destroyed.  Finite-run form: when such a run is over, the _handler thread
\* has returned and neither path of the channel exists.
C19_IdleTimeoutTerminates ==
    WatchRunOver /\ snd[1].pc = "off" =>
        /\ lpc[1] = "closed"
        /\ fs[pipe_name(1)] = 0
        /\ fs[AckName(pipe_name(1))] = 0

\* The sender processes of a run, and the runs of C21: more than one sender
\* process, each with an ordinary payload, no cap, no response channel, no
\* callback that raised and no send ended by its timeout.
Sending == {u \in Senders : snd[u].pc # "off"}
ConcurrentSenders ==
    /\ Cardinality(Sending) > 1
    /\ max_messages[1] = 0
    /\ NoCallbackRaised
    /\ \A u \in Sending : /\ snd[u].message \in {MsgA, MsgB}
                          /\ snd[u].outcome # "TIMEOUT"

\* C21: several senders sending concurrently to one running listener: every
\* payload is passed to the handler exactly once and every send returns
\* true.  Finite-run form: when such a run is over, every send has ended with
\* true and the handler was invoked once for each send.
C21_ConcurrentSendsAllDelivered ==
    Quiescent /\ ConcurrentSenders =>
        \A u \in Sending :
            /\ snd[u].outcome = "true"
            /\ Cardinality({k \in Called : hs[k].decoded = snd[u].message})
                  = Cardinality(SendsOf(1, snd[u].message))

\* The connections whose callback raised.
Raised == {k \in Called : hs[k].pc = "error" /\ hs[k].result = <<>>}

\* C22: when the handler raises for a connection, no ACK is written for it,
\* the connection is closed and the accept loop is not stopped.  With no cap
\* and no die code sent, the flag is still set and the loop is running; and
\* when the run is over, a later send for which the callback was invoked and
\* returned, and that was not ended by its timeout, returned true.
C22_HandlerFailureKeepsLoop ==
    \A k \in Raised :
        /\ ~hs[k].acked /\ hs[k].fin = 0 /\ hs[k].fout = 0
        /\ max_messages[hs[k].lis] = 0 /\ snd[1].message = MsgA =>
              /\ keep_alive[hs[k].lis]
              /\ lpc[hs[k].lis] \in {"loop", "accept"}
              /\ (/\ Quiescent
                  /\ snd[LaterUnit].pc # "off"
                  /\ snd[LaterUnit].outcome # "TIMEOUT"
                  /\ \E j \in Called \ Raised :
                        hs[j].decoded = snd[LaterUnit].message)
                    => snd[LaterUnit].outcome = "true"

\* The callback raised for the first send, which ended with Timeout; the
\* later send was handled and returned true, the loop still running.
C22_Witness ==
    /\ Quiescent
    /\ \E k \in Raised : hs[k].decoded = MsgA
    /\ snd[1].outcome = "TIMEOUT"
    /\ snd[LaterUnit].outcome = "true" /\ snd[LaterUnit].message = MsgB
    /\ \E j \in Called : hs[j].decoded = MsgB /\ hs[j].acked
    /\ keep_alive[1] /\ lpc[1] = "accept"

\* C23: the accept loop does not wait for a connection's handler.  Whenever
\* the loop's open has a writer on the FIFO, the accept step is possible,
\* whatever the connection threads are doing.
C23_AcceptDoesNotWait ==
    \A l \in Listeners :
        (/\ lpc[l] = "accept"
         /\ ReadOpened(inodes, lfd[l], lgen[l])
         /\ Cardinality(Conns(l)) < MaxConn) => ENABLED ListenAccept(l)

\* The callback of connection k is still running; a later connection of the
\* same listener has been accepted, handled and acknowledged, and its sender
\* has read that ACK and returned true.
C23_Witness ==
    \E k, j \in Conns(1) :
        /\ k < j
        /\ hs[k].pc = "callback" /\ hs[k].decoded = MsgA
        /\ hs[j].acked /\ hs[j].decoded = MsgB
        /\ \E u \in Senders : snd[u].message = MsgB /\ snd[u].outcome = "true"
        /\ snd[1].message = MsgA /\ snd[1].pc = "read"

\* C24: a message whose connection was accepted before the accept loop
\* stopped still completes, also when the loop exits and destroys the
\* channels while the handler is in flight.  Finite-run form, one sender with
\* an ordinary payload: when the run is over with the listener ended, a
\* connection accepted and the send not ended by its timeout, the callback
\* was invoked with the payload, the ACK was written and the send returned
\* true.
C24_InFlightConnectionCompletes ==
    (/\ Quiescent
     /\ SingleSender /\ NoCallbackRaised
     /\ snd[1].message \in {MsgA, MsgB}
     /\ lpc[1] = "closed"
     /\ Conns(1) # {}
     /\ snd[1].outcome # "TIMEOUT") =>
        /\ snd[1].outcome = "true"
        /\ \E k \in Called : hs[k].decoded = snd[1].message /\ hs[k].acked

\* C25: a busy duplex pipe at the sender's connect is a transient failure:
\* it is retried after a sleep and not raised on its first occurrence.
\* Finite-run form: a send of the Windows backend that ended with the error
\* of the busy pipe has counted at least one failed attempt before.
C25_BusyConnectRetried ==
    (/\ call.backend = "win" /\ call.op = "send"
     /\ call.pc = "done"
     /\ call.outcome = "PERMISSION_DENIED") => call.attempt > 0

\* The retry loop of a send with timeout T > 0 (Windows backend).  A
\* step that leaves an attempt for the loop test is a transient failure
\* before start + T and counts one attempt; with attempts remaining the loop
\* test is followed by another attempt; a transient failure at or after
\* start + T ends the call with Timeout; and a call that has ended (true, or
\* a PipeError raised inside an attempt) takes no further step.
C26_RetryStep ==
    /\ call.pc = "attempt" /\ call'.pc = "loop" =>
          /\ call.timeout > 0 => call.now < call.timeout
          /\ call'.attempt = call.attempt + 1
    /\ (/\ call.pc = "attempt" /\ call' # call /\ call'.pc # "attempt"
        /\ call.timeout > 0 /\ call.now >= call.timeout) =>
          /\ call'.pc = "done"
          /\ call'.oserror => call'.outcome = "TIMEOUT"
    /\ (/\ call.pc = "loop" /\ call'.pc # "loop"
        /\ (call.attempt < call.max_attempts \/ call.max_attempts = 0)) =>
          call'.pc = "attempt" /\ call'.attempt = call.attempt
    /\ call.pc = "done" => call' = call

\* C26: every step of a send of the Windows backend is a step of the retry
\* loop as C26_RetryStep describes it.
C26_RetryLoop == [][call.backend = "win" /\ call.op = "send" => C26_RetryStep]_vars

\* A send with a timeout whose first attempt failed before the deadline, was
\* retried, and whose next transient failure came after the deadline.
C26_Witness ==
    /\ call.backend = "win" /\ call.op = "send" /\ call.timeout > 0
    /\ call.pc = "done" /\ call.outcome = "TIMEOUT" /\ call.oserror
    /\ call.attempt = 1 /\ call.tries = 2
    /\ call.now >= call.timeout

\* The forward of connection k has been started, and what holds of a
\* started forward: a response channel is configured, the callback returned
\* a result, the ACK was written, the connection did not carry the die code,
\* and the send goes to the response channel with the callback's result.
Forwarded(k) == snd[Fwd(k)].pc # "off"
ForwardInOrder(k) ==
    /\ response_pipe_name[hs[k].lis] # NoName
    /\ hs[k].pc = "forwarding"
    /\ hs[k].called /\ hs[k].result = CallbackResult(hs[k].decoded)
    /\ hs[k].acked
    /\ ~hs[k].die
    /\ hs[k].line # <<>> /\ DecodeMessage(Strip(hs[k].line)).ok
    /\ snd[Fwd(k)].pipe = response_pipe_name[hs[k].lis]
    /\ snd[Fwd(k)].message = hs[k].result

\* C27: the listener forwards at most once per accepted connection, only
\* with a response channel configured, only after the callback returned and
\* the ACK was written, and with the callback's result as payload; a
\* connection whose callback raised, whose frame was empty or undecodable,
\* or that carried the die code never forwards.  As a property of every
\* step: after the step every started forward is in order, no forward unit
\* exists without its connection, and a forward that was started is not
\* started again.
C27_ForwardAtMostOnce ==
    [][\A k \in HandlerIds :
          /\ Forwarded(k)' => k <= Len(hs') /\ ForwardInOrder(k)'
          /\ Forwarded(k) =>
                snd'[Fwd(k)].pc \notin {"off", "idle", "mk2"}
                   \/ snd'[Fwd(k)] = snd[Fwd(k)]]_vars

\* A forward under way with the callback's result, next to a connection of
\* the same listener that ended without one.
C27_Witness ==
    \E k \in Conns(1) :
        /\ Forwarded(k) /\ snd[Fwd(k)].pc = "write"
        /\ snd[Fwd(k)].message = CallbackResult(MsgA)
        /\ hs[k].acked
        /\ \E j \in Conns(1) : hs[j].pc = "done" /\ ~Forwarded(j)

\* C28: the forward of a connection handler is bounded (timeout 5 s, three
\* attempts) and always terminates, with delivery or a reported failure,
\* also when no listener ever runs on the response channel.  Finite-run
\* form: when the run is over, the forwarding send of every connection has
\* returned or raised, and the connection thread has ended.
C28_ForwardTerminates ==
    Quiescent =>
        \A k \in 1..Len(hs) :
            Forwarded(k) => snd[Fwd(k)].pc = "done" /\ HandlerEnded(k)

\* C29: the watchdog issues the die code a small bounded number of times.
\* Finite-run form with the bound of the runs: a watchdog that has made
\* MaxWatchSends sends and is back at its loop test leaves the loop, that
\* is, it does not find the listener alive and call send once more.
C29_WatchdogSendsBounded ==
    wd.pc = "check" /\ wd.sends >= MaxWatchSends => ~IsAlive(1)

\* C30: no watchdog is started when the idle timeout is 0, and a started
\* watchdog never sends the die code before the configured duration has
\* elapsed since listen was called.  With timeout 0 the watchdog thread does
\* not exist and its unit makes no send; a send of the watchdog exists only
\* with a positive timeout that has elapsed, and carries the die code to the
\* listener's own name; and with no sender process, a die code reaches a
\* connection only after the duration.
C30_NoEarlyDieCode ==
    /\ wd.timeout = 0 =>
          wd.pc = "off" /\ wd.sends = 0 /\ snd[KillUnit].pc = "off"
    /\ wd.pc \notin {"off", "sleep"} \/ wd.sends > 0 \/ snd[KillUnit].pc # "off" =>
          /\ wd.timeout > 0 /\ wd.now >= wd.timeout
          /\ snd[KillUnit].pc # "off" =>
                /\ snd[KillUnit].pipe = pipe_name(1)
                /\ snd[KillUnit].message = die_code[1]
    /\ snd[1].pc = "off" /\ (\E k \in Conns(1) : hs[k].die) =>
          wd.timeout > 0 /\ wd.now >= wd.timeout

\* The duration has elapsed, the watchdog has sent the die code once and a
\* connection of the listener has read it.
C30_Witness ==
    /\ wd.timeout = 1 /\ wd.now = 1 /\ wd.sends = 1
    /\ snd[1].pc = "off"
    /\ snd[KillUnit].outcome = "true"
    /\ \E k \in Conns(1) : hs[k].die /\ hs[k].acked

\* C31: when the accept loop has exited, for any reason, the channel
\* resources the listener owns are destroyed: '<name>' and '<name>_ack' are
\* unlinked, and in the Closed state neither entry exists.  Stated for the
\* entries the listener's own units make: a listener that has ended has left
\* no regular file under '<name>_ack'.  (Only open(ack_pipe_name, 'w', 1) of
\* a connection thread creates one there: a send opens that name for
\* reading, and the entries a later send re-creates with _make_fifos are
\* FIFOs, which are not counted.)
C31_ClosedLeavesNothing ==
    \A l \in Listeners :
        lpc[l] = "closed" /\ fs[AckName(pipe_name(l))] # 0 =>
            inodes[fs[AckName(pipe_name(l))]].kind # "file"

\* The report names resource i (1 the request FIFO, 2 the acknowledgement
\* FIFO) as still there and carries the exception of its unlink.
Reports(report, unlinks, i) ==
    /\ report.raised
    /\ IF i = 1 THEN report.pipe_open ELSE report.ack_pipe_open
    /\ \E j \in 1..Len(report.exceptions) : report.exceptions[j] = unlinks[i]

\* C32: failures to destroy the listener's channel resources are aggregated
\* and surfaced, not silently dropped: the cleanup tries to remove both
\* '<name>' and '<name>_ack' independently (a missing entry is a success, a
\* failure on the first does not skip the second), and whenever a removal
\* has failed while the listener is closing, the listener reports which
\* resource remained and why.
C32_CleanupFailuresReported ==
    call.backend = "posix" /\ call.pc = "done" /\ call.unlinks # <<>> =>
        /\ Len(call.unlinks) = 2
        /\ \A i \in 1..2 :
              /\ call.unlinks[i] = "ENOENT" => ~UnlinkFailed(call.unlinks[i])
              /\ UnlinkFailed(call.unlinks[i]) =>
                    Reports(call.report, call.unlinks, i)

\* C33: channel creation is idempotent: when '<name>' or '<name>_ack'
\* exists already, or a listener and a sender (or two senders) race to
\* create them, none of them fails because of it and each proceeds with the
\* handshake on the same channel.  While the listener of a name is up, no
\* unit that has run the creation has ended with an error before its
\* handshake began, both entries are FIFOs once the listener has created
\* them, and every open end (the accept loop's, each connection thread's,
\* and that of each send which has made at least its first mkfifo and has
\* not ended) is on the one FIFO the name refers to.
C33_CreationIdempotent ==
    \A l \in Listeners :
        Phase(l) = "up" =>
            /\ lpc[l] \in {"loop", "accept"} =>
                  /\ fs[pipe_name(l)] # 0 /\ fs[AckName(pipe_name(l))] # 0
                  /\ inodes[fs[pipe_name(l)]].kind = "fifo"
                  /\ inodes[fs[AckName(pipe_name(l))]].kind = "fifo"
                  /\ fs[pipe_name(l)] # fs[AckName(pipe_name(l))]
            /\ lpc[l] = "accept" => lfd[l] = fs[pipe_name(l)]
            /\ \A u \in Units :
                  snd[u].pipe = pipe_name(l)
                  /\ snd[u].pc \notin {"off", "idle", "done"} =>
                  /\ fs[pipe_name(l)] # 0
                  /\ snd[u].pc \in {"mk2", "open_out"} => snd[u].outcome = "none"
                  /\ snd[u].pc = "write" => snd[u].fd = fs[pipe_name(l)]
                  /\ snd[u].pc = "read" => snd[u].fd = fs[AckName(pipe_name(l))]
            /\ \A k \in Conns(l) :
                  hs[k].pc = "ack_write" => hs[k].fout = fs[AckName(pipe_name(l))]

\* The listener and two senders have each run _make_fifos on the same two
\* names, so at least two of them found the entries there; the accept loop
\* and both senders have the request FIFO open.
C33_Witness ==
    /\ lpc[1] = "accept"
    /\ snd[1].pc = "write" /\ snd[2].pc = "write"
    /\ snd[1].fd = lfd[1] /\ snd[2].fd = lfd[1]

\* C34: on the stream-pair backend an ACK is attributed to the right sender:
\* a send returns true only after the listener's handler has finished
\* processing that send's own payload, also with several senders in flight;
\* an ACK written for one request is never consumed as the acknowledgement
\* of another.  Each sender process of a run sends a different payload, so
\* a send that returned true has a connection that decoded its payload and
\* wrote the ACK.
C34_AckIsOwn ==
    \A u \in Senders :
        snd[u].outcome = "true" =>
            \E k \in 1..Len(hs) :
                /\ hs[k].decoded = snd[u].message
                /\ hs[k].acked

\* A step in which a connection of listener l reads the die code.
DieCodeRead(l) ==
    \E k \in 1..Len(hs') :
        /\ hs'[k].lis = l /\ hs'[k].die
        /\ k \in 1..Len(hs) => ~hs[k].die

\* A step in which the accept loop of listener l counts a connection and
\* finds the cap reached.
CapHit(l) ==
    /\ lpc[l] = "accept" /\ lpc'[l] = "loop"
    /\ max_messages[l] > 0
    /\ message_count'[l] = message_count[l] + 1
    /\ message_count'[l] >= max_messages[l]

\* C35: the stop flag keep_alive of a listener is monotone: it starts true,
\* it is set to false only by a connection handler that received the die
\* code or by the accept loop reaching the message cap, and once false it is
\* never set back to true by any unit.
C35_KeepAliveMonotone ==
    /\ \A l \in Listeners : keep_alive[l]
    /\ [][\A l \in Listeners :
            /\ keep_alive'[l] => keep_alive[l]
            /\ keep_alive[l] /\ ~keep_alive'[l] => DieCodeRead(l) \/ CapHit(l)]_vars

\* With no cap, a connection has read the die code and cleared the flag,
\* the callback of another connection has raised, and the accept loop has
\* left with the flag still cleared.
C35_Witness ==
    /\ ~keep_alive[1] /\ max_messages[1] = 0
    /\ lpc[1] \in {"cleanup", "cleanup2", "closed"}
    /\ \E k \in Conns(1) : hs[k].die
    /\ Raised # {}

\* C36: every connection thread the accept loop spawns terminates and closes
\* the handles it opened, also when its sender has timed out and gone away
\* before the ACK is written; no connection thread stays blocked for ever.
\* Finite-run form, with no response channel configured (so that no forward
\* is involved): when the run is over, every connection thread has ended
\* and holds no open end.
C36_HandlersTerminate ==
    Quiescent /\ response_pipe_name[1] = NoName =>
        \A k \in 1..Len(hs) :
            /\ hs[k].pc \in {"done", "error"}
            /\ hs[k].fin = 0 /\ hs[k].fout = 0

\* C37: a POSIX send called from the main thread leaves the signal state of
\* the process unchanged: on every exit path (true, Timeout, any other
\* error) the pending alarm is cancelled and the SIGALRM handler installed
\* before the call is restored, so a timeout armed by one send can never
\* fire after that send has ended.
C37_SignalStateRestored ==
    call.backend = "posix" /\ call.op = "send" /\ call.main /\ call.pc = "done" =>
        /\ ~call.alarm
        /\ call.sigalrm = call.previous

\* C38: after a listener has reached Closed, no unit that belongs to it (a
\* connection handler still in flight, or the die-code send of its
\* watchdog) creates '<name>' or '<name>_ack' again, as a FIFO or as a
\* regular file: no step of such a unit (a step of a connection thread, or
\* of the send the watchdog is in) makes an absent entry of a closed
\* listener present.
C38_NoRecreationAfterClosed ==
    [][\A l \in Listeners :
         \A p \in {pipe_name(l), AckName(pipe_name(l))} :
            lpc[l] = "closed" /\ fs[p] = 0 /\ fs'[p] # 0 =>
                /\ hs' = hs
                /\ wd.pc = "send" => snd'[KillUnit] = snd[KillUnit]]_vars

\* C39: the watchdog itself always terminates: it starts no die-code send to
\* a listener that has terminated, and once the listener has terminated the
\* watchdog exits instead of staying blocked in a send or dying from an
\* unhandled error of send.  Finite-run form: when the run of a listener
\* with a watchdog is over and the listener has ended, the watchdog has left
\* its loop normally.
C39_WatchdogTerminates ==
    WatchRunOver /\ wd.timeout > 0 /\ lpc[1] = "closed" => wd.pc = "ended"

====
